---- MODULE Spec2Model ----
(***************************************************************************)
(* Model of the jspdf-generator editor core: the Document Model held by    *)
(* PDFProvider (elements, paperSize, orientation), the stack-order         *)
(* operations, the geometry handlers of PDFEditor / DraggableElement       *)
(* (drop, drag-move, resize, zoom), the export pipeline of PDFEditor      *)
(* (handleExportPDF), the textual recipe (generateCode), the design        *)
(* persistence of the provider and the Page Writer (PdfWrapper).           *)
(*                                                                         *)
(* Numbers: the code computes with IEEE doubles.  The model computes with  *)
(* exact rationals <<n, d>> (d > 0, lowest terms), so a division by the    *)
(* display scale is a real division and not the identity.  The zoom        *)
(* factor is kept in tenths (zoom = 1.0 is 10), the step of the slider.    *)
(***************************************************************************)
EXTENDS Integers, Sequences, FiniteSets, TLC

VARIABLES
    elements,      \* PDFProvider state: PDFElement[] in array (paint) order
    renderedLen,   \* elements.length captured by the addElement closure of the last render
    nextId,        \* ids handed out so far (Math.random ids are modelled as fresh)
    paperSize,     \* PDFProvider state
    orientation,   \* PDFProvider state
    zoom,          \* PDFEditor state, in tenths
    viewport,      \* <<window.innerWidth, window.innerHeight>>
    displayDimensions, \* PDFEditor state: [width, height, scale] of the rendered paper
    pdfPage,       \* <<width, height>> set on the Page Writer by the last export, or <<0, 0>>
    gestures,      \* UI events handled so far (SpecGeom)
    lastOp,        \* the handler that ran last and its arguments / result
    runs,          \* the invocations of handleExportPDF, in call order
    blobUrls,      \* the object URLs created so far, in creation order
    designFile,    \* the design string saved last, or NoDesign
    writer,        \* a Page Writer (PdfWrapper) instance
    generatedCode  \* PDFProvider state: the recipe text stored last

vars == <<elements, renderedLen, nextId, paperSize, orientation, zoom, viewport,
          displayDimensions, pdfPage, gestures, lastOp, runs, blobUrls, designFile,
          writer, generatedCode>>

(***************************************************************************)
(* Bounds of the model                                                     *)
(***************************************************************************)
MaxElems == 3          \* elements held at once in Spec
MaxIds == 4            \* ids ever created / addressed in Spec
StackElems == 5        \* largest initial document of SpecStack
MaxGeomElems == 1      \* elements held at once in SpecGeom
MaxGestures == 4       \* UI events followed in SpecGeom
MaxRuns == 2           \* invocations of handleExportPDF followed
MaxDrawElems == 2      \* elements of the document exported in SpecDraw
MaxOpsElems == 2       \* elements created in SpecOps
MaxDesignElems == 2    \* elements held at once in SpecDesign
MaxRunElems == 2       \* elements held at once in SpecRuns
MaxWriterCalls == 3    \* method calls on the Page Writer in SpecWriter
ZoomFloor == 3         \* the zoom-out icon is followed down to this value (tenths)
ZoomCeil == 22         \* the zoom-in icon is followed up to this value (tenths)

Ids == 1..MaxIds

(***************************************************************************)
(* Exact rational arithmetic                                               *)
(***************************************************************************)
Abs(n) == IF n < 0 THEN -n ELSE n

RECURSIVE Gcd(_, _)
Gcd(a, b) == IF b = 0 THEN a ELSE Gcd(b, a % b)

Rat(n, d) ==
    LET s == IF d < 0 THEN -1 ELSE 1
        g == Gcd(Abs(n), Abs(d))
    IN  <<(s * n) \div g, (s * d) \div g>>

R(n) == <<n, 1>>

\* a < b, by comparing integer parts and then the reciprocals of the fractional parts
RECURSIVE RatLess(_, _)
RatLess(a, b) ==
    LET fa == a[1] \div a[2]
        fb == b[1] \div b[2]
        ra == a[1] % a[2]
        rb == b[1] % b[2]
    IN  IF fa # fb THEN fa < fb
        ELSE IF rb = 0 THEN FALSE
        ELSE IF ra = 0 THEN TRUE
        ELSE RatLess(<<b[2], rb>>, <<a[2], ra>>)

RatLeq(a, b) == ~RatLess(b, a)

RatMax(a, b) == IF RatLess(a, b) THEN b ELSE a
RatMin(a, b) == IF RatLess(b, a) THEN b ELSE a

RatAdd(a, b) ==
    LET g == Gcd(a[2], b[2])
    IN  Rat(a[1] * (b[2] \div g) + b[1] * (a[2] \div g), (a[2] \div g) * b[2])

RatNeg(a) == <<-a[1], a[2]>>
RatSub(a, b) == RatAdd(a, RatNeg(b))

RatMul(a, b) ==
    LET g1 == Gcd(Abs(a[1]), b[2])
        g2 == Gcd(Abs(b[1]), a[2])
    IN  Rat((a[1] \div g1) * (b[1] \div g2), (a[2] \div g2) * (b[2] \div g1))

\* b # 0
RatDiv(a, b) == RatMul(a, IF b[1] < 0 THEN <<-b[2], -b[1]>> ELSE <<b[2], b[1]>>)

\* Math.round: the nearest integer, halves rounded up
MathRound(a) == (2 * a[1] + a[2]) \div (2 * a[2])

(***************************************************************************)
(* Document Model: PDFProvider (src/src/context/PDFContext.tsx)            *)
(***************************************************************************)
ElementTypes == {"text", "title", "image", "chart", "divider", "card"}

NoOp == [op |-> "none", id |-> 0]

\* no design has been saved yet
NoDesign == [version |-> "none"]

\* useState(''): no recipe text has been stored
NoCode == [orient |-> "none", statements |-> <<>>]

\* element.name, with `default` where the property is undefined (element.name || default)
field(element, name, default) ==
    IF name \in DOMAIN element THEN element[name] ELSE default

\* index (1-based) of the first element with this id, 0 when absent: prev.findIndex
RECURSIVE findIndexFrom(_, _, _)
findIndexFrom(prev, id, i) ==
    IF i > Len(prev) THEN 0
    ELSE IF prev[i].id = id THEN i
    ELSE findIndexFrom(prev, id, i + 1)

findIndex(prev, id) == findIndexFrom(prev, id, 1)

\* prev.filter(el => el.id !== id)
filterOut(prev, id) == SelectSeq(prev, LAMBDA el : el.id # id)

\* faulty variant: the renumbering pass is left out
renumberOmitted(newElements) == newElements

\* newElements.forEach((el, i) => { el.zIndex = i; })
renumber(newElements) ==
    [i \in 1..Len(newElements) |-> [newElements[i] EXCEPT !.zIndex = i - 1]]

\* the updater of addElement; len is elements.length of the closure
addElement(prev, element, id, len) ==
    Append(prev, [f \in DOMAIN element \cup {"id", "zIndex"} |->
                     IF f = "id" THEN id
                     ELSE IF f = "zIndex" THEN len
                     ELSE element[f]])

\* the updater of deleteElement
deleteElement(prev, id) == filterOut(prev, id)

\* the updater of moveElement
moveElement(prev, id, x, y) ==
    [i \in 1..Len(prev) |->
        IF prev[i].id = id
        THEN [prev[i] EXCEPT !.x = RatMax(R(0), x), !.y = RatMax(R(0), y)]
        ELSE prev[i]]

\* the updater of resizeElement
resizeElement(prev, id, width, height) ==
    [i \in 1..Len(prev) |->
        IF prev[i].id = id
        THEN [prev[i] EXCEPT !.width = width, !.height = height]
        ELSE prev[i]]

\* the updater of updateElementStyle: { ...el, ...updates }
updateElementStyle(prev, id, updates) ==
    [i \in 1..Len(prev) |->
        IF prev[i].id = id
        THEN [f \in DOMAIN prev[i] \cup DOMAIN updates |->
                 IF f \in DOMAIN updates THEN updates[f] ELSE prev[i][f]]
        ELSE prev[i]]

\* faulty variant: the swap without the temporary, the element is overwritten by
\* its neighbour
bringForwardOverwriting(prev, id) ==
    LET index == findIndex(prev, id)
    IN  IF index = 0 \/ index = Len(prev) THEN prev
        ELSE renumber([prev EXCEPT ![index] = prev[index + 1]])

\* faulty variant: swaps also at the top, wrapping to the bottom
bringForwardNoGuard(prev, id) ==
    LET index == findIndex(prev, id)
    IN  IF index = 0 THEN prev
        ELSE IF index = Len(prev)
        THEN renumber(<<prev[index]>> \o SubSeq(prev, 1, index - 1))
        ELSE renumber([prev EXCEPT ![index] = prev[index + 1],
                                   ![index + 1] = prev[index]])

\* the updater of bringForward
bringForward(prev, id) ==
    LET index == findIndex(prev, id)
    IN  IF index = 0 \/ index = Len(prev) THEN prev
        ELSE renumber([prev EXCEPT ![index] = prev[index + 1],
                                   ![index + 1] = prev[index]])

\* faulty variant: the guard is index === 0, an absent id (-1) reaches the renumbering
sendBackwardUnguarded(prev, id) ==
    LET index == findIndex(prev, id)
    IN  IF index = 1 THEN prev
        ELSE IF index = 0 THEN renumber(prev)
        ELSE renumber([prev EXCEPT ![index] = prev[index - 1],
                                   ![index - 1] = prev[index]])

\* the updater of sendBackward
sendBackward(prev, id) ==
    LET index == findIndex(prev, id)
    IN  IF index <= 1 THEN prev
        ELSE renumber([prev EXCEPT ![index] = prev[index - 1],
                                   ![index - 1] = prev[index]])

\* faulty variant: moves the element one place towards the tail only
bringToFrontOneStep(prev, id) ==
    LET index == findIndex(prev, id)
    IN  IF index = 0 \/ index = Len(prev) THEN prev
        ELSE renumber([prev EXCEPT ![index] = prev[index + 1],
                                   ![index + 1] = prev[index]])

\* the updater of bringToFront
bringToFront(prev, id) ==
    LET index == findIndex(prev, id)
    IN  IF index = 0 THEN prev
        ELSE renumber(Append(filterOut(prev, id), prev[index]))

\* faulty variant: push instead of unshift
sendToBackPush(prev, id) ==
    LET index == findIndex(prev, id)
    IN  IF index = 0 THEN prev
        ELSE renumber(Append(filterOut(prev, id), prev[index]))

\* the updater of sendToBack
sendToBack(prev, id) ==
    LET index == findIndex(prev, id)
    IN  IF index = 0 THEN prev
        ELSE renumber(<<prev[index]>> \o filterOut(prev, id))

(***************************************************************************)
(* Paper and view transform: PDFEditor (src/src/components/PDFEditor.tsx)  *)
(***************************************************************************)
PaperSizeNames == {"A4", "A3", "Letter"}
Orientations == {"portrait", "landscape"}

PAPER_SIZES ==
    [A4     |-> [width |-> 595, height |-> 842],
     A3     |-> [width |-> 842, height |-> 1191],
     Letter |-> [width |-> 612, height |-> 792]]

\* useMemo paperDimensions
paperDimensions(size, orient) ==
    LET dimensions == PAPER_SIZES[size]
    IN  IF orient = "landscape"
        THEN [width |-> dimensions.height, height |-> dimensions.width]
        ELSE [width |-> dimensions.width, height |-> dimensions.height]

\* faulty variant: the exporter keeps the portrait pair
exportPageSizePortrait(size, orient) ==
    <<PAPER_SIZES[size].width, PAPER_SIZES[size].height>>

\* handleExportPDF: the width and height written to pdfInstance.internal.pageSize
exportPageSize(size, orient) ==
    LET basePaperDimensions == PAPER_SIZES[size]
        pdfWidth == IF orient = "landscape" THEN basePaperDimensions.height
                                            ELSE basePaperDimensions.width
        pdfHeight == IF orient = "landscape" THEN basePaperDimensions.width
                                             ELSE basePaperDimensions.height
    IN  <<pdfWidth, pdfHeight>>

\* padding around the paper in getDisplayDimensions
DisplayPadding == 40

getDisplayDimensions(containerWidth, containerHeight, pd) ==
    LET availableWidth == R(containerWidth - DisplayPadding * 2)
        availableHeight == R(containerHeight - DisplayPadding * 2)
        paperAspectRatio == Rat(pd.width, pd.height)
        containerAspectRatio == RatDiv(availableWidth, availableHeight)
    IN  IF RatLess(paperAspectRatio, containerAspectRatio)
        THEN [width |-> RatMul(availableHeight, paperAspectRatio),
              height |-> availableHeight,
              scale |-> RatDiv(availableHeight, R(pd.height))]
        ELSE [width |-> availableWidth,
              height |-> RatDiv(availableWidth, paperAspectRatio),
              scale |-> RatDiv(availableWidth, R(pd.width))]

\* the effect on [paperSize, orientation, zoom]: base dimensions times zoom
displayDimensionsOf(vp, pd, z) ==
    LET baseDimensions == getDisplayDimensions(vp[1], vp[2], pd)
        zf == Rat(z, 10)
    IN  [width |-> RatMul(baseDimensions.width, zf),
         height |-> RatMul(baseDimensions.height, zf),
         scale |-> RatMul(baseDimensions.scale, zf)]

paperDims == paperDimensions(paperSize, orientation)

\* displayToPdfCoordinates
displayToPdfCoordinates(displayX, displayY, scale) ==
    [x |-> RatDiv(displayX, scale), y |-> RatDiv(displayY, scale)]

\* DraggableElement render: left = currentPosition.x * displayScale (top likewise)
renderedOffset(coordinate, displayScale) == RatMul(coordinate, displayScale)

\* DraggableElement: paperRect.width / paperDimensions.width, the paper being
\* rendered displayDimensions.width pixels wide
currentZoomOf(dd, paper) == RatDiv(dd.width, R(paper.width))

(***************************************************************************)
(* Geometry handlers                                                       *)
(***************************************************************************)
\* the template catalog entries used as drop sources: type, minWidth, heightPerLine
Templates ==
    { [type |-> "text",    minWidth |-> 80,  heightPerLine |-> 18],
      [type |-> "divider", minWidth |-> 100, heightPerLine |-> 2],
      [type |-> "chart",   minWidth |-> 300, heightPerLine |-> 200] }

\* Math.max(0, Math.min(v, maxV))
clampToPaper(v, maxV) == RatMax(R(0), RatMin(v, maxV))

\* useDrop drop handler: the bounded position of the dropped item
dropPosition(relativeX, relativeY, elementWidth, elementHeight, paper, scale) ==
    LET pdfCoords == displayToPdfCoordinates(R(relativeX), R(relativeY), scale)
        maxX == R(paper.width - elementWidth)
        maxY == R(paper.height - elementHeight)
    IN  [x |-> clampToPaper(pdfCoords.x, maxX), y |-> clampToPaper(pdfCoords.y, maxY)]

\* useDrop hover handler: the bounded position of the dragged element
hoverPosition(relativeX, relativeY, element, paper, scale) ==
    LET pdfCoords == displayToPdfCoordinates(R(relativeX), R(relativeY), scale)
        maxX == RatSub(R(paper.width), element.width)
        maxY == RatSub(R(paper.height), element.height)
    IN  [x |-> clampToPaper(pdfCoords.x, maxX), y |-> clampToPaper(pdfCoords.y, maxY)]

GRID_SIZE == 10

\* snapToGrid = Math.round(value / GRID_SIZE) * GRID_SIZE
snapToGrid(value) == R(MathRound(RatDiv(value, R(GRID_SIZE))) * GRID_SIZE)

\* faulty variant: the pixel offset is rounded without dividing by the zoom
pdfPointsUnscaled(relative, currentZoom) == MathRound(relative)

\* updatePosition: pdfX = Math.round(relativeX / currentZoom) (pdfY likewise)
pdfPoints(relative, currentZoom) == MathRound(RatDiv(relative, currentZoom))

\* one axis of updatePosition up to the snap
snappedCoordinate(relative, currentZoom) ==
    LET pdfC == R(pdfPoints(R(relative), currentZoom))
        gridSizeInPoints == RatDiv(R(GRID_SIZE), currentZoom)
    IN  RatMul(snapToGrid(RatDiv(pdfC, gridSizeInPoints)), gridSizeInPoints)

\* updatePosition (live drag): the bounded position
updatePosition(relativeX, relativeY, width, height, paper, currentZoom) ==
    LET snappedX == snappedCoordinate(relativeX, currentZoom)
        snappedY == snappedCoordinate(relativeY, currentZoom)
        maxX == RatSub(R(paper.width), width)
        maxY == RatSub(R(paper.height), height)
    IN  [x |-> clampToPaper(snappedX, maxX), y |-> clampToPaper(snappedY, maxY)]

ResizeDirections == {"right", "bottom", "bottomRight"}

\* the minimum applied by handleResize, in pixels
MinWidthPx == 50
MinHeightPx == 30
DividerMinHeightPx == 1

\* handleResize: the size handed to onResize; minHeightPx is 30, or 1 for a
\* divider in the variant of ChartWidget.tsx
resizedSize(relPxX, relPxY, direction, el, paper, currentZoom, minHeightPx) ==
    LET relativeX == RatDiv(R(relPxX), currentZoom)
        relativeY == RatDiv(R(relPxY), currentZoom)
        w1 == IF direction \in {"right", "bottomRight"}
              THEN RatMax(RatDiv(R(MinWidthPx), currentZoom), relativeX)
              ELSE el.width
        h1 == IF direction \in {"bottom", "bottomRight"}
              THEN RatMax(RatDiv(R(minHeightPx), currentZoom), relativeY)
              ELSE el.height
        maxWidth == RatSub(R(paper.width), el.x)
        maxHeight == RatSub(R(paper.height), el.y)
    IN  [width |-> RatMin(w1, maxWidth), height |-> RatMin(h1, maxHeight)]

handleResize(relPxX, relPxY, direction, el, paper, currentZoom) ==
    resizedSize(relPxX, relPxY, direction, el, paper, currentZoom, MinHeightPx)

handleResizeVariant(relPxX, relPxY, direction, el, paper, currentZoom) ==
    resizedSize(relPxX, relPxY, direction, el, paper, currentZoom,
                IF el.type = "divider" THEN DividerMinHeightPx ELSE MinHeightPx)

(***************************************************************************)
(* Initial state: PDFProvider and PDFEditor after construction             *)
(***************************************************************************)
Viewports == { <<675, 922>>, <<1920, 1080>> }

\* new PdfWrapper({}): jsPDF starts with one page and font size 16
NewWriter ==
    [cursorPos |-> [x |-> 10, y |-> 10], lineSpacing |-> 5, fontSize |-> 16,
     header |-> <<>>, subHeader |-> <<>>,
     leftFooter |-> <<>>, rightFooter |-> <<>>, centerFooter |-> <<>>,
     pages |-> << <<>> >>, page |-> 1,
     onNextPage |-> "noop", subscribers |-> 0,
     added |-> << [registrations |-> 0, calls |-> <<>>] >>,
     calls |-> 0]

InitDocument ==
    /\ elements = <<>>
    /\ renderedLen = 0
    /\ nextId = 0
    /\ paperSize = "A4"
    /\ orientation = "portrait"
    /\ zoom = 10
    /\ pdfPage = <<0, 0>>
    /\ gestures = 0
    /\ lastOp = NoOp
    /\ runs = <<>>
    /\ blobUrls = <<>>
    /\ designFile = NoDesign
    /\ writer = NewWriter
    /\ generatedCode = NoCode

\* useState(getDisplayDimensions(window.innerWidth, window.innerHeight)), zoom 1
InitWindow(vp) ==
    /\ viewport = vp
    /\ displayDimensions = displayDimensionsOf(vp, paperDimensions("A4", "portrait"), 10)

\* the document operations never read the window, so one window size stands for all
Init ==
    /\ InitDocument
    /\ InitWindow(<<675, 922>>)

InitAnyWindow ==
    /\ InitDocument
    /\ \E vp \in Viewports : InitWindow(vp)

(***************************************************************************)
(* Provider operations.  A call enqueues its updater; updaters run in      *)
(* call order, so `elements` is the state with every enqueued updater      *)
(* applied.  The closures (elements.length of addElement) are those of     *)
(* the last render.                                                        *)
(***************************************************************************)
\* what a caller of addElement hands over (Omit<PDFElement, 'id' | 'zIndex'>)
\* (the stack order does not read type or geometry: one value stands for all)
NewElements ==
    { [type |-> "card", x |-> R(100), y |-> R(100), width |-> R(200), height |-> R(150)] }

viewUnchanged == UNCHANGED <<paperSize, orientation, zoom, viewport, displayDimensions, pdfPage>>

\* no export is started or continued and no design is saved by this event
exportIdle == UNCHANGED <<runs, blobUrls, designFile, writer>>

\* exportIdle, and the recipe panel is left as it is (it is followed in SpecCode)
pipelineIdle == exportIdle /\ UNCHANGED generatedCode

AddElement ==
    /\ Len(elements) < MaxElems
    /\ nextId < MaxIds
    /\ \E element \in NewElements :
          elements' = addElement(elements, element, nextId + 1, renderedLen)
    /\ nextId' = nextId + 1
    /\ lastOp' = [op |-> "addElement", id |-> nextId + 1]
    /\ viewUnchanged

DeleteElement(id) ==
    /\ elements' = deleteElement(elements, id)
    /\ lastOp' = [op |-> "deleteElement", id |-> id]
    /\ UNCHANGED nextId
    /\ viewUnchanged

BringForward(id) ==
    /\ elements' = bringForward(elements, id)
    /\ lastOp' = [op |-> "bringForward", id |-> id]
    /\ UNCHANGED nextId
    /\ viewUnchanged

SendBackward(id) ==
    /\ elements' = sendBackward(elements, id)
    /\ lastOp' = [op |-> "sendBackward", id |-> id]
    /\ UNCHANGED nextId
    /\ viewUnchanged

BringToFront(id) ==
    /\ elements' = bringToFront(elements, id)
    /\ lastOp' = [op |-> "bringToFront", id |-> id]
    /\ UNCHANGED nextId
    /\ viewUnchanged

SendToBack(id) ==
    /\ elements' = sendToBack(elements, id)
    /\ lastOp' = [op |-> "sendToBack", id |-> id]
    /\ UNCHANGED nextId
    /\ viewUnchanged

\* React re-renders the provider: the callbacks are re-created over the new state
Render ==
    /\ renderedLen # Len(elements)
    /\ renderedLen' = Len(elements)
    /\ UNCHANGED <<elements, nextId, lastOp, gestures>>
    /\ viewUnchanged
    /\ pipelineIdle

\* the call returns before React has rendered again
Queued == UNCHANGED <<renderedLen, gestures>> /\ pipelineIdle

\* React has rendered again before the next call (one call per UI event)
Flushed == renderedLen' = Len(elements') /\ UNCHANGED gestures /\ pipelineIdle

\* a UI event of SpecGeom
Gesture == gestures < MaxGestures /\ gestures' = gestures + 1 /\ pipelineIdle

Next ==
    \/ AddElement /\ Queued
    \/ \E id \in Ids : DeleteElement(id) /\ Queued
    \/ \E id \in Ids : BringForward(id) /\ Queued
    \/ \E id \in Ids : SendBackward(id) /\ Queued
    \/ \E id \in Ids : BringToFront(id) /\ Queued
    \/ \E id \in Ids : SendToBack(id) /\ Queued
    \/ Render

Spec == Init /\ [][Next]_vars

\* SpecSync: the same operations, each one dispatched by its own UI event
NextSync ==
    \/ AddElement /\ Flushed
    \/ \E id \in Ids : DeleteElement(id) /\ Flushed
    \/ \E id \in Ids : BringForward(id) /\ Flushed
    \/ \E id \in Ids : SendBackward(id) /\ Flushed
    \/ \E id \in Ids : BringToFront(id) /\ Flushed
    \/ \E id \in Ids : SendToBack(id) /\ Flushed

SpecSync == Init /\ [][NextSync]_vars

(***************************************************************************)
(* SpecStack: the stack-order operations on a document whose zIndex values *)
(* are the array indexes                                                   *)
(***************************************************************************)
StackIds == 1..(StackElems + 1)

InitStack ==
    /\ \E n \in 0..StackElems :
          /\ elements = [i \in 1..n |->
                            [id |-> i, type |-> "text", x |-> R(0), y |-> R(0),
                             width |-> R(200), height |-> R(100), zIndex |-> i - 1]]
          /\ renderedLen = n
          /\ nextId = n
    /\ paperSize = "A4"
    /\ orientation = "portrait"
    /\ zoom = 10
    /\ InitWindow(<<675, 922>>)
    /\ pdfPage = <<0, 0>>
    /\ gestures = 0
    /\ lastOp = NoOp
    /\ runs = <<>>
    /\ blobUrls = <<>>
    /\ designFile = NoDesign
    /\ writer = NewWriter
    /\ generatedCode = NoCode

NextStack ==
    \/ \E id \in StackIds : BringForward(id) /\ Flushed
    \/ \E id \in StackIds : SendBackward(id) /\ Flushed
    \/ \E id \in StackIds : BringToFront(id) /\ Flushed
    \/ \E id \in StackIds : SendToBack(id) /\ Flushed

SpecStack == InitStack /\ [][NextStack]_vars

(***************************************************************************)
(* SpecView: paper, orientation, zoom and the page set-up of the exporter  *)
(***************************************************************************)
\* the values the zoom slider offers: min 0.5, max 2, step 0.1
SliderMin == 5
SliderMax == 20
SliderValues == SliderMin..SliderMax

documentUnchanged == UNCHANGED <<elements, renderedLen, nextId>>

\* useEffect on [paperSize, orientation, zoom]: runs after the render that follows
\* the change, before the next event
displayEffect ==
    displayDimensions' =
        displayDimensionsOf(viewport, paperDimensions(paperSize', orientation'), zoom')

\* Slider onChange
SetZoomSlider(value) ==
    /\ zoom' = value
    /\ lastOp' = [op |-> "zoomSlider", id |-> 0]
    /\ UNCHANGED <<paperSize, orientation, viewport, pdfPage>>
    /\ displayEffect
    /\ documentUnchanged

\* ZoomOutIcon onClick
ZoomOutClick ==
    /\ zoom > ZoomFloor
    /\ zoom' = zoom - 1
    /\ lastOp' = [op |-> "zoomOut", id |-> 0]
    /\ UNCHANGED <<paperSize, orientation, viewport, pdfPage>>
    /\ displayEffect
    /\ documentUnchanged

\* ZoomInIcon onClick
ZoomInClick ==
    /\ zoom < ZoomCeil
    /\ zoom' = zoom + 1
    /\ lastOp' = [op |-> "zoomIn", id |-> 0]
    /\ UNCHANGED <<paperSize, orientation, viewport, pdfPage>>
    /\ displayEffect
    /\ documentUnchanged

\* Paper Size select
SetPaperSize(size) ==
    /\ paperSize' = size
    /\ lastOp' = [op |-> "setPaperSize", id |-> 0]
    /\ UNCHANGED <<orientation, zoom, viewport, pdfPage>>
    /\ displayEffect
    /\ documentUnchanged

\* the forEach of handleOrientationChange over the rendered elements: the
\* updaters of moveElement and resizeElement, applied in call order
RECURSIVE orientationRemap(_, _, _, _)
orientationRemap(prev, rendered, i, paper) ==
    IF i > Len(rendered) THEN prev
    ELSE LET element == rendered[i]
             newX == RatMul(element.y, Rat(paper.height, paper.width))
             newY == RatMul(element.x, Rat(paper.width, paper.height))
             moved == moveElement(prev, element.id, newX, newY)
             resized == resizeElement(moved, element.id, element.width, element.height)
         IN  orientationRemap(resized, rendered, i + 1, paper)

\* Orientation select
HandleOrientationChange(newOrientation) ==
    /\ newOrientation # orientation
    /\ orientation' = newOrientation
    /\ elements' = orientationRemap(elements, elements, 1, paperDims)
    /\ lastOp' = [op |-> "orientation", id |-> 0]
    /\ UNCHANGED <<renderedLen, nextId, paperSize, zoom, viewport, pdfPage>>
    /\ displayEffect

\* handleExportPDF up to initPage: the page size given to the Page Writer
ExportPageSetup ==
    /\ pdfPage' = exportPageSize(paperSize, orientation)
    /\ lastOp' = [op |-> "export", id |-> 0]
    /\ UNCHANGED <<paperSize, orientation, zoom, viewport, displayDimensions>>
    /\ documentUnchanged

\* an event of the toolbar
ViewEvent == UNCHANGED gestures /\ pipelineIdle

NextView ==
    \/ \E value \in SliderValues : SetZoomSlider(value) /\ ViewEvent
    \/ ZoomOutClick /\ ViewEvent
    \/ ZoomInClick /\ ViewEvent
    \/ \E size \in PaperSizeNames : SetPaperSize(size) /\ ViewEvent
    \/ \E o \in Orientations : HandleOrientationChange(o) /\ ViewEvent
    \/ ExportPageSetup /\ ViewEvent

SpecView == InitAnyWindow /\ [][NextView]_vars

(***************************************************************************)
(* SpecConvert: the toolbar events of SpecView, and a pointer placed on    *)
(* the rendered position of a document point, converted back by the drop   *)
(* handler and by the drag handler                                         *)
(***************************************************************************)
\* document points on the page: corners, a point off the point grid, an inner point
DocPoints(paper) ==
    { <<R(0), R(0)>>, <<Rat(1, 2), Rat(3, 2)>>,
      <<Rat(paper.width, 3), Rat(paper.height, 7)>>,
      <<R(paper.width), R(paper.height)>> }

ConvertPoint(point) ==
    LET scale == displayDimensions.scale
        currentZoom == currentZoomOf(displayDimensions, paperDims)
        left == renderedOffset(point[1], scale)
        top == renderedOffset(point[2], scale)
    IN  /\ lastOp' = [op |-> "convert", id |-> 0, point |-> point,
                      dropped |-> displayToPdfCoordinates(left, top, scale),
                      dragged |-> [x |-> R(pdfPoints(left, currentZoom)),
                                   y |-> R(pdfPoints(top, currentZoom))]]
        /\ documentUnchanged
        /\ viewUnchanged
        /\ ViewEvent

NextConvert ==
    \/ NextView
    \/ \E point \in DocPoints(paperDims) : ConvertPoint(point)

SpecConvert == InitAnyWindow /\ [][NextConvert]_vars

(***************************************************************************)
(* SpecGeom: drop, drag-move and resize on the canvas.  Each gesture event *)
(* is a discrete UI event: React has rendered again before the next one.   *)
(***************************************************************************)
\* pointer offsets from the paper's top-left corner, in pixels
PointerOffsets == { <<-30, -40>>, <<560, 800>> }

\* pointer offsets from the element's top-left corner, in pixels
ResizeOffsets == { <<10, 5>>, <<900, 1300>> }

\* zoom values set with the slider in SpecGeom
GeomZooms == {5, 20}

\* drop of a tool (no item.id): a new element at the bounded position
DropNew(template, pointer) ==
    LET elementWidth == template.minWidth
        elementHeight == template.heightPerLine
        bounded == dropPosition(pointer[1], pointer[2], elementWidth, elementHeight,
                                paperDims, displayDimensions.scale)
        newElement == [type |-> template.type, x |-> bounded.x, y |-> bounded.y,
                       width |-> R(elementWidth), height |-> R(elementHeight)]
    IN  /\ Len(elements) < MaxGeomElems
        /\ elements' = addElement(elements, newElement, nextId + 1, renderedLen)
        /\ nextId' = nextId + 1
        /\ lastOp' = [op |-> "drop", id |-> nextId + 1]
        /\ renderedLen' = Len(elements')
        /\ viewUnchanged

\* hover of a dragged element over the paper
Hover(i, pointer) ==
    LET element == elements[i]
        bounded == hoverPosition(pointer[1], pointer[2], element, paperDims,
                                 displayDimensions.scale)
    IN  /\ elements' = moveElement(elements, element.id, bounded.x, bounded.y)
        /\ lastOp' = [op |-> "hover", id |-> element.id]
        /\ UNCHANGED <<renderedLen, nextId>>
        /\ viewUnchanged

\* mousemove while the element is dragged
UpdatePosition(i, pointer) ==
    LET element == elements[i]
        bounded == updatePosition(pointer[1], pointer[2], element.width, element.height,
                                  paperDims, currentZoomOf(displayDimensions, paperDims))
    IN  /\ elements' = moveElement(elements, element.id, bounded.x, bounded.y)
        /\ lastOp' = [op |-> "updatePosition", id |-> element.id, pointer |-> pointer]
        /\ UNCHANGED <<renderedLen, nextId>>
        /\ viewUnchanged

\* the tail of handleResize: onResize is called only if the size has changed
resizeTo(element, size, direction, minHeightPx) ==
    /\ size.width # element.width \/ size.height # element.height
    /\ elements' = resizeElement(elements, element.id, size.width, size.height)
    /\ lastOp' = [op |-> "resize", id |-> element.id, direction |-> direction,
                  minHeightPx |-> minHeightPx]
    /\ UNCHANGED <<renderedLen, nextId>>
    /\ viewUnchanged

\* mousemove while a resize handle is held (DraggableElement.tsx)
Resize(i, pointer, direction) ==
    resizeTo(elements[i],
             handleResize(pointer[1], pointer[2], direction, elements[i], paperDims,
                          currentZoomOf(displayDimensions, paperDims)),
             direction, MinHeightPx)

\* the same in the variant that lets a divider shrink to 1 pixel (ChartWidget.tsx)
ResizeVariant(i, pointer, direction) ==
    resizeTo(elements[i],
             handleResizeVariant(pointer[1], pointer[2], direction, elements[i], paperDims,
                                 currentZoomOf(displayDimensions, paperDims)),
             direction,
             IF elements[i].type = "divider" THEN DividerMinHeightPx ELSE MinHeightPx)

NextGeom ==
    \/ \E template \in Templates, pointer \in PointerOffsets :
          DropNew(template, pointer) /\ Gesture
    \/ \E i \in 1..Len(elements), pointer \in PointerOffsets :
          Hover(i, pointer) /\ Gesture
    \/ \E i \in 1..Len(elements), pointer \in PointerOffsets :
          UpdatePosition(i, pointer) /\ Gesture
    \/ \E i \in 1..Len(elements), pointer \in ResizeOffsets, direction \in ResizeDirections :
          Resize(i, pointer, direction) /\ Gesture
    \/ \E i \in 1..Len(elements), pointer \in ResizeOffsets, direction \in ResizeDirections :
          ResizeVariant(i, pointer, direction) /\ Gesture
    \/ \E size \in PaperSizeNames : SetPaperSize(size) /\ Gesture
    \/ \E value \in GeomZooms : SetZoomSlider(value) /\ Gesture

SpecGeom == Init /\ [][NextGeom]_vars

(***************************************************************************)
(* SpecBounds: the gestures on one paper (A4 portrait), with the effects   *)
(* of DraggableElement that follow them.  The bounds effect runs after the *)
(* render in which x, y, width, height or isDragging changed and the       *)
(* element is not dragged: after a drop, a resize step, a key nudge and    *)
(* the end of a drag.  It does not depend on the zoom.                     *)
(***************************************************************************)
\* the bounds effect: maxX = paperRect.width - width, the paper being rendered
\* displayDimensions.width pixels wide (maxY likewise)
boundedInPaperRect(element, dd) ==
    [x |-> clampToPaper(element.x, RatSub(dd.width, element.width)),
     y |-> clampToPaper(element.y, RatSub(dd.height, element.height))]

\* the bounds effect of the element with this id: onPositionChange if it moved
boundsEffect(prev, id, dd) ==
    LET element == prev[findIndex(prev, id)]
        bounded == boundedInPaperRect(element, dd)
    IN  IF bounded.x # element.x \/ bounded.y # element.y
        THEN moveElement(prev, id, bounded.x, bounded.y)
        ELSE prev

ArrowKeys == {"ArrowLeft", "ArrowRight", "ArrowUp", "ArrowDown"}

\* handleKeyDown: the position after an arrow key
handleKeyDown(element, key, dd) ==
    LET maxX == RatSub(dd.width, element.width)
        maxY == RatSub(dd.height, element.height)
    IN  [x |-> CASE key = "ArrowLeft" -> RatMax(R(0), RatSub(element.x, R(1)))
                 [] key = "ArrowRight" -> RatMin(maxX, RatAdd(element.x, R(1)))
                 [] OTHER -> element.x,
         y |-> CASE key = "ArrowUp" -> RatMax(R(0), RatSub(element.y, R(1)))
                 [] key = "ArrowDown" -> RatMin(maxY, RatAdd(element.y, R(1)))
                 [] OTHER -> element.y]

\* a react-dnd drag of an element is in progress
dragging == lastOp.op \in {"hover", "updatePosition"}

\* drop of a tool, and the bounds effect of the mounted element
DropAndBound(template, pointer) ==
    LET elementWidth == template.minWidth
        elementHeight == template.heightPerLine
        bounded == dropPosition(pointer[1], pointer[2], elementWidth, elementHeight,
                                paperDims, displayDimensions.scale)
        newElement == [type |-> template.type, x |-> bounded.x, y |-> bounded.y,
                       width |-> R(elementWidth), height |-> R(elementHeight)]
    IN  /\ ~dragging
        /\ Len(elements) < MaxGeomElems
        /\ elements' = boundsEffect(addElement(elements, newElement, nextId + 1, renderedLen),
                                    nextId + 1, displayDimensions)
        /\ nextId' = nextId + 1
        /\ lastOp' = [op |-> "drop", id |-> nextId + 1]
        /\ renderedLen' = Len(elements')
        /\ viewUnchanged

\* the drag ends (isDragging becomes false): the bounds effect runs
EndDrag(i) ==
    /\ dragging
    /\ lastOp.id = elements[i].id
    /\ elements' = boundsEffect(elements, elements[i].id, displayDimensions)
    /\ lastOp' = [op |-> "endDrag", id |-> elements[i].id]
    /\ UNCHANGED <<renderedLen, nextId>>
    /\ viewUnchanged

\* an arrow key on the selected element, and the bounds effect on its new position
ArrowKey(i, key) ==
    LET element == elements[i]
        newPosition == handleKeyDown(element, key, displayDimensions)
    IN  /\ ~dragging
        /\ newPosition.x # element.x \/ newPosition.y # element.y
        /\ elements' = boundsEffect(moveElement(elements, element.id,
                                                newPosition.x, newPosition.y),
                                    element.id, displayDimensions)
        /\ lastOp' = [op |-> "arrowKey", id |-> element.id, key |-> key]
        /\ UNCHANGED <<renderedLen, nextId>>
        /\ viewUnchanged

\* a resize step, and the bounds effect on the new size
ResizeAndBound(i, pointer, direction) ==
    LET element == elements[i]
        size == handleResize(pointer[1], pointer[2], direction, element, paperDims,
                             currentZoomOf(displayDimensions, paperDims))
    IN  /\ ~dragging
        /\ size.width # element.width \/ size.height # element.height
        /\ elements' = boundsEffect(resizeElement(elements, element.id,
                                                  size.width, size.height),
                                    element.id, displayDimensions)
        /\ lastOp' = [op |-> "resize", id |-> element.id, direction |-> direction,
                      minHeightPx |-> MinHeightPx]
        /\ UNCHANGED <<renderedLen, nextId>>
        /\ viewUnchanged

\* zoom values set with the slider in SpecBounds
BoundsZooms == {SliderMin, 10, SliderMax}

NextBounds ==
    \/ \E template \in Templates, pointer \in PointerOffsets :
          DropAndBound(template, pointer) /\ Gesture
    \/ \E i \in 1..Len(elements), pointer \in PointerOffsets :
          Hover(i, pointer) /\ Gesture
    \/ \E i \in 1..Len(elements), pointer \in PointerOffsets :
          UpdatePosition(i, pointer) /\ Gesture
    \/ \E i \in 1..Len(elements) : EndDrag(i) /\ Gesture
    \/ \E i \in 1..Len(elements), key \in ArrowKeys : ArrowKey(i, key) /\ Gesture
    \/ \E i \in 1..Len(elements), pointer \in ResizeOffsets, direction \in ResizeDirections :
          ResizeAndBound(i, pointer, direction) /\ Gesture
    \/ \E value \in BoundsZooms : ~dragging /\ SetZoomSlider(value) /\ Gesture

SpecBounds == Init /\ [][NextBounds]_vars

(***************************************************************************)
(* SpecOrient: elements dropped on the page, and orientation and paper     *)
(* size changes of the toolbar                                             *)
(***************************************************************************)
\* the positions of the elements are whole points (the documents whose orientation
\* is changed: a remapped position is a fraction with denominator 595 or 842)
wholePoints ==
    \A i \in 1..Len(elements) : elements[i].x[2] = 1 /\ elements[i].y[2] = 1

NextOrient ==
    \/ \E template \in Templates, pointer \in PointerOffsets :
          DropNew(template, pointer) /\ Gesture
    \/ \E o \in Orientations : wholePoints /\ HandleOrientationChange(o) /\ Gesture
    \/ \E size \in PaperSizeNames : SetPaperSize(size) /\ Gesture

SpecOrient == Init /\ [][NextOrient]_vars

(***************************************************************************)
(* SpecOps: the operations addressed by element id, called with ids that   *)
(* are and ids that are not in the document, each by its own UI event      *)
(***************************************************************************)
\* arguments of the calls
MoveTargets == { <<R(-5), R(20)>> }
ResizeTargets == { <<R(50), R(60)>> }
StyleUpdates == { [textAlign |-> "center", shadow |-> TRUE] }

MoveElement(id, target) ==
    /\ elements' = moveElement(elements, id, target[1], target[2])
    /\ lastOp' = [op |-> "moveElement", id |-> id]
    /\ UNCHANGED nextId
    /\ viewUnchanged

ResizeElement(id, target) ==
    /\ elements' = resizeElement(elements, id, target[1], target[2])
    /\ lastOp' = [op |-> "resizeElement", id |-> id]
    /\ UNCHANGED nextId
    /\ viewUnchanged

UpdateElementStyle(id, updates) ==
    /\ elements' = updateElementStyle(elements, id, updates)
    /\ lastOp' = [op |-> "updateElementStyle", id |-> id]
    /\ UNCHANGED nextId
    /\ viewUnchanged

\* hover of a dragged item with item.id = id: returns when elements.find finds nothing
HoverItem(id, pointer) ==
    /\ IF findIndex(elements, id) = 0
       THEN elements' = elements
       ELSE LET element == elements[findIndex(elements, id)]
                bounded == hoverPosition(pointer[1], pointer[2], element, paperDims,
                                         displayDimensions.scale)
            IN  elements' = moveElement(elements, id, bounded.x, bounded.y)
    /\ lastOp' = [op |-> "hover", id |-> id]
    /\ UNCHANGED nextId
    /\ viewUnchanged

\* the ids of the elements created in SpecOps and one id never handed out
OpsIds == 1..(MaxOpsElems + 1)

\* the ids of OpsIds that no element of the document has
AbsentIds == { id \in OpsIds : \A i \in 1..Len(elements) : elements[i].id # id }

NextOps ==
    \/ nextId < MaxOpsElems /\ AddElement /\ Flushed
    \/ \E id \in OpsIds : DeleteElement(id) /\ Flushed
    \/ \E id \in OpsIds : BringForward(id) /\ Flushed
    \/ \E id \in OpsIds : SendBackward(id) /\ Flushed
    \/ \E id \in OpsIds : BringToFront(id) /\ Flushed
    \/ \E id \in OpsIds : SendToBack(id) /\ Flushed
    \/ \E id \in OpsIds : \E target \in MoveTargets : MoveElement(id, target) /\ Flushed
    \/ \E id \in OpsIds : \E target \in ResizeTargets : ResizeElement(id, target) /\ Flushed
    \/ \E id \in OpsIds : \E updates \in StyleUpdates : UpdateElementStyle(id, updates) /\ Flushed
    \/ \E id \in AbsentIds : \E pointer \in PointerOffsets : HoverItem(id, pointer) /\ Flushed

SpecOps == Init /\ [][NextOps]_vars

(***************************************************************************)
(* Export pipeline: handleExportPDF (src/src/components/PDFEditor.tsx)     *)
(*                                                                         *)
(* An invocation creates its Page Writer, maps every element of the        *)
(* rendered document to a promise of a draw procedure and returns.  The    *)
(* reactions of the promises and the continuation of Promise.all are       *)
(* microtasks: they run before the next UI event is handled.  The model    *)
(* leaves open in which order the promises of one invocation settle.  The  *)
(* continuation replays the draw procedures, takes the blob, creates the   *)
(* object URL, opens the preview and arms the 1000 ms timer in one         *)
(* callback.  A Page Writer is recorded as the calls that reached it.      *)
(***************************************************************************)
\* one call of the Page Writer that puts ink on the page
WriterCall(id, call, branch, mode) ==
    [id |-> id, call |-> call, branch |-> branch, mode |-> mode]

\* the x-offset branch of a text element
textOffsetBranch(element) ==
    IF field(element, "textAlign", "left") = "center" THEN "center"
    ELSE IF field(element, "textAlign", "left") = "right" THEN "right"
    ELSE "left"

\* the Page Writer primitive roundedRect(x, y, w, h, radius, mode), recorded as
\* the call that reached the writer
roundedRect(id, branch, mode) == WriterCall(id, "roundedRect", branch, mode)

\* the Page Writer primitive rect(x, y, w, h, mode)
rect(id, branch, mode) == WriterCall(id, "rect", branch, mode)

\* the main rectangle of a card: rounded when borderRadius is set and > 0, filled
\* and stroked when borderWidth is set and > 0
mainRectangle(element) ==
    LET mode == IF field(element, "borderWidth", 0) > 0 THEN "FD" ELSE "F"
    IN  IF field(element, "borderRadius", 0) > 0
        THEN roundedRect(element.id, "main", mode)
        ELSE rect(element.id, "main", mode)

\* the x and y arguments of a rectangle call of the card draw procedure: the shadow
\* is passed position + 2, the main rectangle the position
rectangleOrigin(element, call) ==
    IF call.branch = "shadow"
    THEN <<RatAdd(element.x, R(2)), RatAdd(element.y, R(2))>>
    ELSE <<element.x, element.y>>

\* faulty variant: the shadow is drawn after the main rectangle and so covers it
drawProcedureShadowLast(element) ==
    IF element.type = "card" /\ field(element, "shadow", FALSE)
    THEN <<mainRectangle(element),
           roundedRect(element.id, "shadow", "F")>>
    ELSE IF element.type = "card"
    THEN <<mainRectangle(element)>>
    ELSE IF element.type \in {"text", "title"}
    THEN <<WriterCall(element.id, "printText", textOffsetBranch(element), "text")>>
    ELSE IF element.type \in {"chart", "image"}
    THEN <<WriterCall(element.id, "addImage", element.type, "image")>>
    ELSE IF element.type = "divider"
    THEN <<WriterCall(element.id, "rect", "divider", "F")>>
    ELSE <<>>

\* the closure renderPromises holds for one element: the Page Writer calls it makes
drawProcedure(element) ==
    IF element.type \in {"text", "title"}
    THEN <<WriterCall(element.id, "printText", textOffsetBranch(element), "text")>>
    ELSE IF element.type = "chart"
    THEN <<WriterCall(element.id, "addImage", "chart", "image")>>
    ELSE IF element.type = "card"
    THEN (IF field(element, "shadow", FALSE)
          THEN <<roundedRect(element.id, "shadow", "F")>>
          ELSE <<>>)
         \o <<mainRectangle(element)>>
    ELSE IF element.type = "image"
    THEN <<WriterCall(element.id, "addImage", "image", "image")>>
    ELSE IF element.type = "divider"
    THEN <<WriterCall(element.id, "rect", "divider", "F")>>
    ELSE <<>>

\* elements.map(element => Promise.resolve(() => {...}))
renderPromises(rendered) ==
    [i \in 1..Len(rendered) |->
        [id |-> rendered[i].id, calls |-> drawProcedure(rendered[i])]]

\* faulty variant: the results come in the order the promises settled
promiseAllBySettlement(promises, settled) ==
    [k \in 1..Len(settled) |-> promises[settled[k]]]

\* Promise.all: the results in the order of the input, whatever order they settled in
promiseAll(promises, settled) == promises

\* the calls of a draw procedure that reach the Page Writer when call number failAt
\* throws (0: no call throws)
completedCalls(calls, failAt) ==
    IF failAt = 0 THEN calls ELSE SubSeq(calls, 1, failAt - 1)

\* faulty variant: forEach without the try/catch, the first exception ends the replay
RECURSIVE replayUncaught(_, _, _)
replayUncaught(drawFunctions, failAt, i) ==
    IF i > Len(drawFunctions)
    THEN [attempted |-> <<>>, drawn |-> <<>>, failed |-> {}, escaped |-> FALSE]
    ELSE IF failAt[i] # 0
    THEN [attempted |-> <<drawFunctions[i].id>>,
          drawn |-> completedCalls(drawFunctions[i].calls, failAt[i]),
          failed |-> {drawFunctions[i].id}, escaped |-> TRUE]
    ELSE LET rest == replayUncaught(drawFunctions, failAt, i + 1)
         IN  [attempted |-> <<drawFunctions[i].id>> \o rest.attempted,
              drawn |-> drawFunctions[i].calls \o rest.drawn,
              failed |-> rest.failed, escaped |-> rest.escaped]

\* drawFunctions.forEach(draw => { try { draw(); } catch (error) {...} }) from index i
RECURSIVE replay(_, _, _)
replay(drawFunctions, failAt, i) ==
    IF i > Len(drawFunctions)
    THEN [attempted |-> <<>>, drawn |-> <<>>, failed |-> {}, escaped |-> FALSE]
    ELSE LET rest == replay(drawFunctions, failAt, i + 1)
         IN  [attempted |-> <<drawFunctions[i].id>> \o rest.attempted,
              drawn |-> completedCalls(drawFunctions[i].calls, failAt[i]) \o rest.drawn,
              failed |-> (IF failAt[i] # 0 THEN {drawFunctions[i].id} ELSE {})
                         \cup rest.failed,
              escaped |-> FALSE]

\* what a replay without exceptions writes for a document: the draw procedures of
\* its elements in array order
exportDrawCalls(rendered) ==
    replay(renderPromises(rendered), [i \in 1..Len(rendered) |-> 0], 1).drawn

\* the temporary canvas of a chart draw procedure is a child of document.body
\* after the DOM calls of dom
attached(dom) ==
    Len(SelectSeq(dom, LAMBDA c : c = "appendChild"))
        > Len(SelectSeq(dom, LAMBDA c : c = "removeChild"))

\* faulty variant: the catch block only logs
catchBlockLogOnly(dom) == dom

\* catch (error) { if (chartCanvas.parentNode) document.body.removeChild(chartCanvas) }
catchBlock(dom) == IF attached(dom) THEN Append(dom, "removeChild") ELSE dom

\* the ways through the draw procedure of a chart: rendered and embedded, no 2D
\* context, and an exception while parsing the chart spec, while rendering
\* (new ChartJS, draw, toDataURL, destroy) or while embedding (pdf.addImage)
ChartPathNames == {"rendered", "noContext", "parse", "render", "embed"}

\* the calls on document.body the draw procedure of a chart makes on a path
chartCanvas(path) ==
    LET created == <<"appendChild">>
    IN  IF path = "noContext" THEN Append(created, "removeChild")
        ELSE IF path \in {"parse", "render"} THEN catchBlock(created)
        ELSE IF path = "embed" THEN catchBlock(Append(created, "removeChild"))
        ELSE Append(created, "removeChild")

isChart(drawFunction) ==
    drawFunction.calls # <<>> /\ drawFunction.calls[1].branch = "chart"

\* the paths the chart draw procedures of one replay can take: a chart whose
\* image reached the writer was rendered, one whose image did not took one of
\* the other paths
ChartPaths(drawFunctions, failAt) ==
    { paths \in [1..Len(drawFunctions) -> ChartPathNames \cup {"none"}] :
        \A i \in 1..Len(drawFunctions) :
            IF ~isChart(drawFunctions[i]) THEN paths[i] = "none"
            ELSE IF failAt[i] = 0 THEN paths[i] = "rendered"
            ELSE paths[i] \in ChartPathNames \ {"rendered"} }

\* the temporary canvases of one replay
canvasesOf(drawFunctions, paths) ==
    [i \in 1..Len(drawFunctions) |->
        [id |-> drawFunctions[i].id, path |-> paths[i],
         dom |-> IF paths[i] = "none" THEN <<>> ELSE chartCanvas(paths[i])]]

\* the outcomes of the draw procedures of one replay: for each, the number of the
\* call that throws, or 0
FailureChoices(promises) ==
    { f \in [1..Len(promises) -> 0..2] :
        \A i \in 1..Len(promises) : f[i] <= Len(promises[i].calls) }

\* no draw procedure throws
NoFailure(promises) == { [i \in 1..Len(promises) |-> 0] }

\* faulty variant: one Page Writer shared by all invocations
sharedWriter(r) == 1

\* const pdf = new PdfWrapper(...): the Page Writer the closures of invocation r hold
ownWriter(r) == r

\* faulty variant: the timer revokes the URL created last
revokedUrlLatest(urls, url) == Len(urls)

\* the URL the timer callback of an invocation revokes: its own blobUrl
revokedUrl(urls, url) == url

pending(r) == runs[r].phase = "pending"
noRunPending == \A r \in 1..Len(runs) : ~pending(r)

\* the pipeline leaves the document and the view alone
editorUnchanged ==
    /\ documentUnchanged
    /\ UNCHANGED <<paperSize, orientation, zoom, viewport, displayDimensions,
                   gestures, designFile, writer, generatedCode>>

\* click on Preview: the synchronous part of handleExportPDF
StartExport(limit) ==
    /\ Len(runs) < limit
    /\ noRunPending
    /\ runs' = Append(runs, [snapshot |-> elements,
                             page |-> exportPageSize(paperSize, orientation),
                             promises |-> renderPromises(elements),
                             settled |-> <<>>,
                             phase |-> "pending",
                             attempted |-> <<>>, drawn |-> <<>>, failed |-> {},
                             canvases |-> <<>>,
                             url |-> 0, timer |-> "none"])
    /\ pdfPage' = exportPageSize(paperSize, orientation)
    /\ lastOp' = [op |-> "export", id |-> 0]
    /\ UNCHANGED blobUrls
    /\ editorUnchanged

\* the reaction of promise i of invocation r runs
Settle(r, i) ==
    /\ pending(r)
    /\ i \in 1..Len(runs[r].promises)
    /\ \A k \in 1..Len(runs[r].settled) : runs[r].settled[k] # i
    /\ runs' = [runs EXCEPT ![r].settled = Append(@, i)]
    /\ UNCHANGED <<blobUrls, pdfPage, lastOp>>
    /\ editorUnchanged

\* the continuation of Promise.all(renderPromises): replay, blob, URL, preview, timer
Finalize(r, failAt) ==
    LET drawFunctions == promiseAll(runs[r].promises, runs[r].settled)
        done == replay(drawFunctions, failAt, 1)
        w == ownWriter(r)
        written == [runs EXCEPT ![w].drawn = @ \o done.drawn]
    IN  /\ pending(r)
        /\ Len(runs[r].settled) = Len(runs[r].promises)
        /\ \E paths \in ChartPaths(drawFunctions, failAt) :
             IF done.escaped
             THEN runs' = [written EXCEPT ![r].phase = "rejected",
                                          ![r].attempted = done.attempted,
                                          ![r].failed = done.failed,
                                          ![r].canvases =
                                              canvasesOf(drawFunctions, paths)]
             ELSE runs' = [written EXCEPT ![r].phase = "finalized",
                                          ![r].attempted = done.attempted,
                                          ![r].failed = done.failed,
                                          ![r].canvases =
                                              canvasesOf(drawFunctions, paths),
                                          ![r].url = Len(blobUrls) + 1,
                                          ![r].timer = "armed"]
        /\ IF done.escaped
           THEN UNCHANGED blobUrls
           ELSE blobUrls' = Append(blobUrls,
                                   [owner |-> r, blob |-> written[w].drawn,
                                    state |-> "live", opened |-> TRUE,
                                    revocations |-> 0])
        /\ UNCHANGED <<pdfPage, lastOp>>
        /\ editorUnchanged

\* 1000 ms have passed since the timer of invocation r was armed
DelayElapses(r) ==
    /\ r \in 1..Len(runs)
    /\ runs[r].timer = "armed"
    /\ runs' = [runs EXCEPT ![r].timer = "elapsed"]
    /\ UNCHANGED <<blobUrls, pdfPage, lastOp>>
    /\ editorUnchanged

\* the timer callback: URL.revokeObjectURL(blobUrl)
RevokeTimer(r) ==
    /\ r \in 1..Len(runs)
    /\ runs[r].timer = "elapsed"
    /\ runs' = [runs EXCEPT ![r].timer = "fired"]
    /\ blobUrls' = [blobUrls EXCEPT ![revokedUrl(blobUrls, runs[r].url)] =
                       [@ EXCEPT !.state = "revoked", !.revocations = @ + 1]]
    /\ UNCHANGED <<pdfPage, lastOp>>
    /\ editorUnchanged

(***************************************************************************)
(* SpecExport: insertions and deletions of present elements, each by its   *)
(* own UI event, and up to MaxRuns exports whose draw procedures succeed   *)
(***************************************************************************)
\* an editing event between exports: the microtasks of a started export have run,
\* and the document is followed up to the start of the last export
Editing == noRunPending /\ Len(runs) < MaxRuns

NextExport ==
    \/ AddElement /\ Flushed /\ Editing
    \/ \E i \in 1..Len(elements) : DeleteElement(elements[i].id) /\ Flushed /\ Editing
    \/ StartExport(MaxRuns)
    \/ \E r \in 1..Len(runs) : \E i \in 1..MaxElems : Settle(r, i)
    \/ \E r \in 1..Len(runs) : \E failAt \in NoFailure(runs[r].promises) : Finalize(r, failAt)
    \/ \E r \in 1..MaxRuns : DelayElapses(r)
    \/ \E r \in 1..MaxRuns : RevokeTimer(r)

SpecExport == Init /\ [][NextExport]_vars

\* SpecRuns: successive exports of a document that grows between them
NextRuns ==
    \/ Len(elements) < MaxRunElems /\ AddElement /\ Flushed /\ Editing
    \/ StartExport(MaxRuns)
    \/ \E r \in 1..Len(runs) : \E i \in 1..MaxRunElems : Settle(r, i)
    \/ \E r \in 1..Len(runs) : \E failAt \in NoFailure(runs[r].promises) : Finalize(r, failAt)
    \/ \E r \in 1..MaxRuns : DelayElapses(r)
    \/ \E r \in 1..MaxRuns : RevokeTimer(r)

SpecRuns == Init /\ [][NextRuns]_vars

\* the event loop runs a due timer callback
SpecRunsFair ==
    /\ SpecRuns
    /\ \A r \in 1..MaxRuns : WF_vars(DelayElapses(r)) /\ WF_vars(RevokeTimer(r))

(***************************************************************************)
(* SpecDraw: one export of a document of styled elements whose draw        *)
(* procedures may throw at any Page Writer call                            *)
(* and whose chart procedures take any of their paths.  The promises are   *)
(* Promise.resolve(...) values: their reactions run in creation order      *)
(* (SpecRuns leaves the order open).                                       *)
(***************************************************************************)
TextAligns == {"left", "center", "right"}

\* what addElement is handed for the element types and the style properties the
\* draw procedures branch on
StyledElements ==
    { [type |-> t, x |-> R(100), y |-> R(100), width |-> R(200), height |-> R(100),
       textAlign |-> a] : t \in {"text"}, a \in TextAligns }
    \cup
    { [type |-> t, x |-> R(100), y |-> R(100), width |-> R(200), height |-> R(100)] :
         t \in {"title", "chart", "image", "divider"} }
    \cup
    { [type |-> "card", x |-> R(100), y |-> R(100), width |-> R(200), height |-> R(150),
       shadow |-> s, borderRadius |-> radius, borderWidth |-> w] :
         s \in BOOLEAN, radius \in {0, 4}, w \in {0, 1} }

\* addElement of a styled element
AddStyledElement(choices, maxLen) ==
    /\ Len(elements) < maxLen
    /\ nextId < MaxIds
    /\ \E element \in choices :
          elements' = addElement(elements, element, nextId + 1, renderedLen)
    /\ nextId' = nextId + 1
    /\ lastOp' = [op |-> "addElement", id |-> nextId + 1]
    /\ viewUnchanged

NextDraw ==
    \/ AddStyledElement(StyledElements, MaxDrawElems) /\ Flushed /\ runs = <<>>
    \/ StartExport(1)
    \/ \E r \in 1..Len(runs) : Settle(r, Len(runs[r].settled) + 1)
    \/ \E r \in 1..Len(runs) : \E failAt \in FailureChoices(runs[r].promises) :
          Finalize(r, failAt)
    \/ DelayElapses(1)
    \/ RevokeTimer(1)

SpecDraw == Init /\ [][NextDraw]_vars

(***************************************************************************)
(* Textual recipe: generateCode (src/src/context/PDFContext.tsx)           *)
(***************************************************************************)
\* sorted with el appended at its place: ties keep their order (Array.prototype.sort
\* is stable)
RECURSIVE insertByZIndex(_, _)
insertByZIndex(sorted, el) ==
    IF sorted = <<>> THEN <<el>>
    ELSE IF sorted[Len(sorted)].zIndex <= el.zIndex THEN Append(sorted, el)
    ELSE Append(insertByZIndex(SubSeq(sorted, 1, Len(sorted) - 1), el),
                sorted[Len(sorted)])

\* [...elements].sort((a, b) => a.zIndex - b.zIndex)
RECURSIVE sortedElements(_)
sortedElements(rendered) ==
    IF rendered = <<>> THEN <<>>
    ELSE insertByZIndex(sortedElements(SubSeq(rendered, 1, Len(rendered) - 1)),
                        rendered[Len(rendered)])

\* the Page Writer statements generateCode pushes for one element
recipeStatements(element) ==
    IF element.type \in {"text", "title"}
    THEN <<WriterCall(element.id, "printText",
                      IF field(element, "textAlign", "left") = "center" THEN "center"
                      ELSE IF field(element, "textAlign", "left") = "right" THEN "right"
                      ELSE "left",
                      "text")>>
    ELSE IF element.type = "chart"
    THEN <<WriterCall(element.id, "addImage", "chart", "image")>>
    ELSE IF element.type = "image"
    THEN <<WriterCall(element.id, "addImage", "image", "image")>>
    ELSE IF element.type = "card"
    THEN (IF field(element, "shadow", FALSE)
          THEN <<WriterCall(element.id, "roundedRect", "shadow", "F")>>
          ELSE <<>>)
         \o (IF field(element, "borderRadius", 0) > 0
             THEN <<WriterCall(element.id, "roundedRect", "main",
                               IF field(element, "borderWidth", 0) > 0 THEN "FD" ELSE "F")>>
             ELSE <<WriterCall(element.id, "rect", "main",
                               IF field(element, "borderWidth", 0) > 0 THEN "FD" ELSE "F")>>)
    ELSE IF element.type = "divider"
    THEN <<WriterCall(element.id, "rect", "divider", "F")>>
    ELSE <<>>

RECURSIVE recipeOf(_, _)
recipeOf(sorted, i) ==
    IF i > Len(sorted) THEN <<>>
    ELSE recipeStatements(sorted[i]) \o recipeOf(sorted, i + 1)

\* generateCode: the element statements of the recipe, in emission order
generateCode(rendered) == recipeOf(sortedElements(rendered), 1)

\* the provider renders and generateCode() is called on the rendered document
GenerateCode ==
    /\ lastOp' = [op |-> "generateCode", id |-> 0, code |-> generateCode(elements)]
    /\ documentUnchanged
    /\ viewUnchanged
    /\ UNCHANGED gestures
    /\ pipelineIdle

NextRecipe ==
    \/ AddStyledElement(StyledElements, MaxElems) /\ Flushed
    \/ \E i \in 1..Len(elements) : DeleteElement(elements[i].id) /\ Flushed
    \/ GenerateCode

SpecRecipe == Init /\ [][NextRecipe]_vars

(***************************************************************************)
(* SpecCode: the recipe text the provider stores.  Every handler that      *)
(* calls setGeneratedCode(generateCode()) calls the generateCode of the    *)
(* render its callback was created in (useCallback on [generateCode],      *)
(* generateCode on [elements, orientation]); each call is one UI event,    *)
(* and React has rendered before the next.                                 *)
(***************************************************************************)
MaxCodeElems == 2

\* the text generateCode returns in a render: the orient line of the header and
\* the statements of the elements of that render
recipeText(rendered, orient) ==
    [orient |-> IF orient = "landscape" THEN "l" ELSE "p",
     statements |-> generateCode(rendered)]

\* setGeneratedCode(generateCode()) inside a handler or an updater: elements and
\* orientation are those of the render, the state before the handler ran
setGeneratedCode == generatedCode' = recipeText(elements, orientation)

\* a UI event of SpecCode: exports, designs and the writer are left alone
CodeEvent ==
    /\ gestures < MaxGestures
    /\ gestures' = gestures + 1
    /\ exportIdle

\* a UI event of SpecCode, and React renders after it
Rendered == renderedLen' = Len(elements') /\ CodeEvent

CodeIds == 1..MaxCodeElems

\* the paper sizes selected in SpecCode
CodePapers == {"A4", "Letter"}

\* the elements added in SpecCode
CodeElements == { element \in StyledElements : element.type \in {"title", "divider"} }

NextCode ==
    \/ nextId < MaxCodeElems /\ AddStyledElement(CodeElements, MaxCodeElems)
          /\ setGeneratedCode /\ Rendered
    \/ \E id \in CodeIds : DeleteElement(id) /\ setGeneratedCode /\ Rendered
    \/ \E id \in CodeIds : \E target \in MoveTargets :
          MoveElement(id, target) /\ setGeneratedCode /\ Rendered
    \/ \E id \in CodeIds : \E target \in ResizeTargets :
          ResizeElement(id, target) /\ setGeneratedCode /\ Rendered
    \/ \E id \in CodeIds : \E updates \in StyleUpdates :
          UpdateElementStyle(id, updates) /\ setGeneratedCode /\ Rendered
    \/ \E id \in CodeIds : BringForward(id) /\ UNCHANGED generatedCode /\ Rendered
    \/ \E id \in CodeIds : SendBackward(id) /\ UNCHANGED generatedCode /\ Rendered
    \/ \E id \in CodeIds : BringToFront(id) /\ UNCHANGED generatedCode /\ Rendered
    \/ \E id \in CodeIds : SendToBack(id) /\ UNCHANGED generatedCode /\ Rendered
    \/ \E size \in CodePapers : SetPaperSize(size) /\ setGeneratedCode /\ Rendered
    \/ \E o \in Orientations : wholePoints /\ HandleOrientationChange(o) /\ setGeneratedCode
          /\ CodeEvent

SpecCode == Init /\ [][NextCode]_vars

(***************************************************************************)
(* Design persistence: saveDesign / loadDesign of the provider.  Their     *)
(* code is not among the sources (only the declarations in the context     *)
(* types and the calls in PDFEditor are); they are modelled from the       *)
(* specification: the format {version, paperSize, orientation, elements[]},*)
(* elements without id and zIndex, both regenerated on load in file order; *)
(* a malformed string or a version mismatch aborts the load.  A design     *)
(* string is modelled by what it parses to.                                *)
(***************************************************************************)
DesignVersion == "1.0"
OldVersion == "0.9"

\* an element as persisted: without id and zIndex
persisted(element) == [f \in DOMAIN element \ {"id", "zIndex"} |-> element[f]]

\* saveDesign: the elements in array order
saveDesign(els, size, orient) ==
    [kind |-> "json", version |-> DesignVersion, paperSize |-> size,
     orientation |-> orient,
     elements |-> [i \in 1..Len(els) |-> persisted(els[i])]]

\* faulty variant: the loaded elements all get zIndex 0
regeneratedFlat(fileElements, firstId) ==
    [i \in 1..Len(fileElements) |->
        [f \in DOMAIN fileElements[i] \cup {"id", "zIndex"} |->
            IF f = "id" THEN firstId + i - 1
            ELSE IF f = "zIndex" THEN 0
            ELSE fileElements[i][f]]]

\* the elements of a loaded design: fresh ids, zIndex = index in file order
regenerated(fileElements, firstId) ==
    [i \in 1..Len(fileElements) |->
        [f \in DOMAIN fileElements[i] \cup {"id", "zIndex"} |->
            IF f = "id" THEN firstId + i - 1
            ELSE IF f = "zIndex" THEN i - 1
            ELSE fileElements[i][f]]]

\* the string parses to a design of the current version with all its parts
validDesign(file) ==
    /\ file.kind = "json"
    /\ DOMAIN file = {"kind", "version", "paperSize", "orientation", "elements"}
    /\ file.version = DesignVersion

\* faulty variant: paper size and orientation are applied before the version is checked
loadDesignPartial(file, doc, firstId) ==
    IF validDesign(file)
    THEN [ok |-> TRUE, elements |-> regenerated(file.elements, firstId),
          paperSize |-> file.paperSize, orientation |-> file.orientation]
    ELSE IF file.kind = "json" /\ {"paperSize", "orientation"} \subseteq DOMAIN file
    THEN [ok |-> FALSE, elements |-> doc.elements,
          paperSize |-> file.paperSize, orientation |-> file.orientation]
    ELSE [ok |-> FALSE, elements |-> doc.elements,
          paperSize |-> doc.paperSize, orientation |-> doc.orientation]

\* loadDesign: the document after the call and the boolean it returns
loadDesign(file, doc, firstId) ==
    IF validDesign(file)
    THEN [ok |-> TRUE, elements |-> regenerated(file.elements, firstId),
          paperSize |-> file.paperSize, orientation |-> file.orientation]
    ELSE [ok |-> FALSE, elements |-> doc.elements,
          paperSize |-> doc.paperSize, orientation |-> doc.orientation]

\* strings that are no design: not JSON, and JSON without the elements
MalformedDesigns ==
    { [kind |-> "garbage"],
      [kind |-> "json", version |-> DesignVersion, paperSize |-> "A3",
       orientation |-> "landscape"] }

\* the files handleImportDesign may be given
DesignFiles(saved) ==
    IF saved = NoDesign THEN MalformedDesigns
    ELSE {saved, [saved EXCEPT !.version = OldVersion]} \cup MalformedDesigns

\* the elements inserted in SpecDesign
DesignElements ==
    { [type |-> "text", x |-> R(100), y |-> R(100), width |-> R(200), height |-> R(100),
       textAlign |-> "center"],
      [type |-> "card", x |-> R(100), y |-> R(100), width |-> R(200), height |-> R(150),
       shadow |-> TRUE, borderRadius |-> 4, borderWidth |-> 1] }

\* handleExportDesign
SaveDesign ==
    /\ designFile' = saveDesign(elements, paperSize, orientation)
    /\ lastOp' = [op |-> "saveDesign", id |-> 0]
    /\ documentUnchanged
    /\ viewUnchanged
    /\ UNCHANGED <<gestures, runs, blobUrls, writer, generatedCode>>

\* handleImportDesign: reader.onload calls loadDesign(designString)
LoadDesign(file) ==
    LET doc == [elements |-> elements, paperSize |-> paperSize, orientation |-> orientation]
        loaded == loadDesign(file, doc, nextId + 1)
    IN  /\ validDesign(file) => nextId + Len(file.elements) <= MaxIds
        /\ elements' = loaded.elements
        /\ paperSize' = loaded.paperSize
        /\ orientation' = loaded.orientation
        /\ nextId' = IF loaded.ok THEN nextId + Len(file.elements) ELSE nextId
        /\ renderedLen' = Len(elements')
        /\ lastOp' = [op |-> "loadDesign", id |-> 0, file |-> file, result |-> loaded.ok]
        /\ UNCHANGED <<zoom, viewport, pdfPage, gestures, runs, blobUrls, designFile, writer,
                       generatedCode>>
        /\ displayEffect

\* the paper sizes selected in SpecDesign
DesignPapers == {"A4", "A3"}

NextDesign ==
    \/ nextId < MaxDesignElems /\ AddStyledElement(DesignElements, MaxDesignElems) /\ Flushed
    \/ \E i \in 1..Len(elements) : DeleteElement(elements[i].id) /\ Flushed
    \/ \E size \in DesignPapers : SetPaperSize(size) /\ ViewEvent
    \/ \E o \in Orientations : Len(elements) = 0 /\ HandleOrientationChange(o) /\ ViewEvent
    \/ SaveDesign
    \/ \E file \in DesignFiles(designFile) : LoadDesign(file)

SpecDesign == Init /\ [][NextDesign]_vars

(***************************************************************************)
(* Page Writer: PdfWrapper (src/unnamed/part_001).  A text is a sequence   *)
(* of pieces, the tokens {PAGENUM} and {PAGES} being pieces of their own;  *)
(* the empty text is <<>>.  pages[i] is the list of jsPDF calls drawn on   *)
(* page i; added[i] records the page-added event of page i: how many       *)
(* setPageHeader calls had been made, and the callbacks it ran.            *)
(***************************************************************************)
\* the page of the jsPDF instance, in points (A4 landscape, rounded)
WriterPage == [width |-> 842, height |-> 595]

\* String.prototype.replace with a string pattern: the first occurrence only
replaceFirst(text, token, value) ==
    LET at == {k \in 1..Len(text) : text[k] = token}
    IN  IF at = {} THEN text
        ELSE LET first == CHOOSE k \in at : \A j \in at : k <= j
             IN  [text EXCEPT ![first] = value]

\* footer.replace("{PAGENUM}", i.toString()).replace("{PAGES}", totalPages.toString())
footerContent(footer, i, totalPages) ==
    replaceFirst(replaceFirst(footer, "{PAGENUM}", ToString(i)), "{PAGES}", ToString(totalPages))

\* pdf.<call>(...) on the current page
drawOn(w, call) == [w EXCEPT !.pages[w.page] = Append(@, call)]

\* setCurrentPos({x, y}): a missing argument defaults to the cursor (autoNextPage false)
setCurrentPos(w, args) ==
    LET x == field(args, "x", w.cursorPos.x)
        y == field(args, "y", w.cursorPos.y)
    IN  [w EXCEPT !.cursorPos = [x |-> IF x # 0 THEN x ELSE w.cursorPos.x,
                                 y |-> y + w.fontSize]]

\* printHeader
printHeader(w) ==
    IF w.header = <<>> THEN w
    ELSE LET drawn == drawOn([w EXCEPT !.fontSize = 20],
                             [call |-> "text", content |-> w.header,
                              x |-> w.cursorPos.x, y |-> w.cursorPos.y + 20, align |-> "left"])
         IN  [drawn EXCEPT !.cursorPos = [x |-> 10, y |-> w.cursorPos.y + 20 + w.lineSpacing]]

\* printDivider
printDivider(w) ==
    LET y == w.cursorPos.y + 8
    IN  setCurrentPos(drawOn(w, [call |-> "line", x |-> 10, y |-> y,
                                 x2 |-> WriterPage.width - 10, y2 |-> y]),
                      [y |-> y])

\* printSubHeader
printSubHeader(w) ==
    IF w.subHeader = <<>> THEN w
    ELSE LET drawn == drawOn([w EXCEPT !.fontSize = 14],
                             [call |-> "text", content |-> w.subHeader,
                              x |-> w.cursorPos.x, y |-> w.cursorPos.y + 14, align |-> "left"])
         IN  printDivider([drawn EXCEPT !.cursorPos.y = w.cursorPos.y + 14 + w.lineSpacing + 5])

\* printText(content, options) without a link
printText(w, content, options) ==
    IF content = <<>> THEN w
    ELSE LET sized == [w EXCEPT !.fontSize = 12]
             x == field(options, "x", 0)
             y == field(options, "y", 0)
             drawn == drawOn(sized, [call |-> "text", content |-> content,
                                     x |-> IF x # 0 THEN x ELSE w.cursorPos.x,
                                     y |-> IF y # 0 THEN y ELSE w.cursorPos.y,
                                     align |-> "left"])
         IN  setCurrentPos(drawn, options)

\* the footers printFooter draws on page i, in drawing order
RECURSIVE footersOfPages(_, _, _)
footersOfPages(w, i, totalPages) ==
    IF i > totalPages THEN w
    ELSE LET onPage == [w EXCEPT !.page = i, !.fontSize = 8]
             ruled == drawOn(onPage, [call |-> "line", x |-> 10, y |-> WriterPage.height - 34,
                                      x2 |-> WriterPage.width - 10,
                                      y2 |-> WriterPage.height - 34])
             left == IF w.leftFooter # <<>>
                     THEN drawOn(ruled, [call |-> "text",
                                         content |-> footerContent(w.leftFooter, i, totalPages),
                                         x |-> 20, y |-> WriterPage.height - 20,
                                         align |-> "left"])
                     ELSE ruled
             right == IF w.rightFooter # <<>>
                      THEN drawOn(left, [call |-> "text",
                                         content |-> footerContent(w.rightFooter, i, totalPages),
                                         x |-> WriterPage.width - 20,
                                         y |-> WriterPage.height - 20, align |-> "right"])
                      ELSE left
             center == IF w.centerFooter # <<>>
                       THEN drawOn(right, [call |-> "text",
                                           content |-> footerContent(w.centerFooter, i, totalPages),
                                           x |-> WriterPage.width \div 2,
                                           y |-> WriterPage.height - 20, align |-> "center"])
                       ELSE right
         IN  footersOfPages(center, i + 1, totalPages)

\* printFooter(fromPageNumber)
printFooter(w, fromPageNumber) ==
    IF w.rightFooter = <<>> THEN w
    ELSE footersOfPages(w, fromPageNumber, Len(w.pages))

\* setPageHeader(callback): the callback is stored and one more listener subscribed
setPageHeader(w, callback) ==
    [w EXCEPT !.onNextPage = callback, !.subscribers = @ + 1]

\* newPage: pdf.addPage publishes "addPage"; every listener calls this.onNextPage()
newPage(w) ==
    [w EXCEPT !.pages = Append(@, <<>>),
              !.page = Len(w.pages) + 1,
              !.added = Append(@, [registrations |-> w.subscribers,
                                   calls |-> [k \in 1..w.subscribers |-> w.onNextPage]])]

(***************************************************************************)
(* SpecWriter: calls of the Page Writer's methods on one instance          *)
(***************************************************************************)
FooterTexts ==
    { <<>>, <<"Page ", "{PAGENUM}", " of ", "{PAGES}">>, <<"{PAGENUM}", "/", "{PAGENUM}">> }
HeaderTexts == { <<>>, <<"Report">> }
Callbacks == {"headerA", "headerB"}
TextOptions == { [color |-> "black"], [x |-> 100, y |-> 200], [y |-> 300] }
FromPages == {1, 2, 3}

\* a call of a method of the writer: everything else is left alone
WriterCalls(method, args, w) ==
    /\ writer.calls < MaxWriterCalls
    /\ writer' = [w EXCEPT !.calls = writer.calls + 1]
    /\ lastOp' = [op |-> method, id |-> 0, args |-> args]
    /\ documentUnchanged
    /\ viewUnchanged
    /\ UNCHANGED <<gestures, runs, blobUrls, designFile, generatedCode>>

NextWriter ==
    \/ \E content \in HeaderTexts :
          WriterCalls("setHeader", content, printHeader([writer EXCEPT !.header = content]))
    \/ \E content \in HeaderTexts :
          WriterCalls("setSubHeader", content,
                      printSubHeader([writer EXCEPT !.subHeader = content]))
    \/ \E content \in FooterTexts :
          WriterCalls("setLeftFooter", content, [writer EXCEPT !.leftFooter = content])
    \/ \E content \in FooterTexts :
          WriterCalls("setRightFooter", content, [writer EXCEPT !.rightFooter = content])
    \/ \E content \in FooterTexts :
          WriterCalls("setCenterFooter", content, [writer EXCEPT !.centerFooter = content])
    \/ WriterCalls("printDivider", <<>>, printDivider(writer))
    \/ \E options \in TextOptions :
          WriterCalls("printText", options, printText(writer, <<"text">>, options))
    \/ WriterCalls("addImage", <<>>, drawOn(writer, [call |-> "addImage", x |-> 10, y |-> 20]))
    \/ WriterCalls("rect", <<>>, drawOn(writer, [call |-> "rect", x |-> 10, y |-> 20]))
    \/ WriterCalls("line", <<>>, drawOn(writer, [call |-> "line", x |-> 10, y |-> 20,
                                                 x2 |-> 30, y2 |-> 40]))
    \/ \E callback \in Callbacks :
          WriterCalls("setPageHeader", callback, setPageHeader(writer, callback))
    \/ WriterCalls("newPage", <<>>, newPage(writer))
    \/ \E fromPageNumber \in FromPages :
          WriterCalls("printFooter", fromPageNumber, printFooter(writer, fromPageNumber))

SpecWriter == Init /\ [][NextWriter]_vars

(***************************************************************************)
(* Properties                                                              *)
(***************************************************************************)
idOrder(seq) == [i \in 1..Len(seq) |-> seq[i].id]
zIndexes(seq) == [i \in 1..Len(seq) |-> seq[i].zIndex]
present(seq, id) == findIndex(seq, id) # 0

\* this step of Spec is a call of the provider operation `op` (a render leaves
\* lastOp as it is and changes renderedLen)
called(ops) == lastOp'.op \in ops /\ renderedLen' = renderedLen

\* C1: on a document that starts with zIndex = array index, after any sequence
\* of bringForward, sendBackward, bringToFront and sendToBack calls every
\* element's zIndex equals its array index, so the zIndex values are exactly
\* 0..N-1 without duplicates or gaps.
C1_ZIndexIsArrayIndex ==
    /\ \A i \in 1..Len(elements) : elements[i].zIndex = i - 1
    /\ {elements[i].zIndex : i \in 1..Len(elements)} = 0..(Len(elements) - 1)

\* a stack operation has reordered a three-element document
C1_Witness ==
    /\ lastOp.op = "sendToBack"
    /\ idOrder(elements) = <<3, 1, 2>>

\* C2: in every state reachable by addElement, deleteElement and the stack
\* operations, the zIndex values are a dense permutation of 0..N-1 that
\* increases along the array (paint) order.
C2_DensePermutation ==
    /\ {elements[i].zIndex : i \in 1..Len(elements)} = 0..(Len(elements) - 1)
    /\ \A i, j \in 1..Len(elements) : i < j => elements[i].zIndex < elements[j].zIndex

\* C3: every addElement appends the new element at the tail and gives it the
\* number of elements held immediately before the insertion as zIndex, also
\* when several calls are made before the provider renders again.
C3_AddGetsPriorCount ==
    [][called({"addElement"}) =>
          /\ Len(elements') = Len(elements) + 1
          /\ SubSeq(elements', 1, Len(elements)) = elements
          /\ elements'[Len(elements')].id = nextId'
          /\ elements'[Len(elements')].zIndex = Len(elements)]_vars

\* C4: bringToFront(id) applied a second time changes nothing: neither the
\* element order nor any zIndex.
C4_BringToFrontIdempotent ==
    [][(/\ lastOp.op = "bringToFront"
        /\ called({"bringToFront"})
        /\ lastOp'.id = lastOp.id) => elements' = elements]_vars

\* bringToFront has moved an element of a document of three to the tail
C4_Witness ==
    /\ lastOp.op = "bringToFront"
    /\ lastOp.id = 1
    /\ idOrder(elements) = <<2, 3, 1>>

\* C5: for an id that is present, sendToBack leaves the element at index 0
\* with zIndex 0 and bringToFront leaves it at index N-1 with zIndex N-1; the
\* other elements keep their relative order and every element's zIndex is its
\* new index.
C5_ToBackToFront ==
    [][(called({"sendToBack", "bringToFront"}) /\ present(elements, lastOp'.id)) =>
          LET id == lastOp'.id
              n == Len(elements)
              at == IF lastOp'.op = "sendToBack" THEN 1 ELSE n
          IN  /\ Len(elements') = n
              /\ elements'[at].id = id
              /\ elements'[at].zIndex = at - 1
              /\ idOrder(filterOut(elements', id)) = idOrder(filterOut(elements, id))
              /\ \A i \in 1..n : elements'[i].zIndex = i - 1]_vars

\* the scenario of the specification: order [0,1,2], sendToBack on the last
\* element gives [2,0,1], renumbered [0,1,2]
C5_Witness ==
    /\ lastOp = [op |-> "sendToBack", id |-> 3]
    /\ idOrder(elements) = <<3, 1, 2>>
    /\ zIndexes(elements) = <<0, 1, 2>>

\* C6: bringForward on an element at index i < N-1 exchanges it with the
\* element at i+1, sendBackward at index i > 0 exchanges it with the element
\* at i-1, every other element stays at its index; bringForward on the last
\* and sendBackward on the first element leave order and zIndex values as
\* they were.
C6_AdjacentSwap ==
    [][(called({"bringForward", "sendBackward"}) /\ present(elements, lastOp'.id)) =>
          LET i == findIndex(elements, lastOp'.id)
              n == Len(elements)
              j == IF lastOp'.op = "bringForward" THEN i + 1 ELSE i - 1
          IN  IF j < 1 \/ j > n
              THEN elements' = elements
              ELSE /\ idOrder(elements') =
                         [idOrder(elements) EXCEPT ![i] = elements[j].id,
                                                   ![j] = elements[i].id]
                   /\ \A k \in 1..n : elements'[k].zIndex = k - 1]_vars

\* bringForward has exchanged the first two of three elements
C6_Witness ==
    /\ lastOp = [op |-> "bringForward", id |-> 1]
    /\ idOrder(elements) = <<2, 1, 3>>

elementById(id) == elements[findIndex(elements, id)]

\* C7: the position produced by the drop handler and by the drag-move handlers
\* after clamping satisfies 0 <= x, 0 <= y, x + width <= paperWidth and
\* y + height <= paperHeight, whatever the pointer position, the element size
\* and the paper.
C7_ClampedInsidePaper ==
    lastOp.op \in {"drop", "hover", "updatePosition"} =>
        LET el == elementById(lastOp.id)
        IN  /\ RatLeq(R(0), el.x)
            /\ RatLeq(R(0), el.y)
            /\ RatLeq(RatAdd(el.x, el.width), R(paperDims.width))
            /\ RatLeq(RatAdd(el.y, el.height), R(paperDims.height))

\* C8: the width and height a resize gesture hands to resizeElement are at
\* least the minimum width and height the resize handler applies (50 and 30
\* pixels at the current zoom, 1 pixel for the height of a divider in the
\* variant), at every element position and zoom.  Only the dimensions the
\* gesture's direction resizes are examined.
C8_ResizeAtLeastMinimum ==
    lastOp.op = "resize" =>
        LET el == elementById(lastOp.id)
            currentZoom == currentZoomOf(displayDimensions, paperDims)
        IN  /\ lastOp.direction \in {"right", "bottomRight"} =>
                  RatLeq(RatDiv(R(MinWidthPx), currentZoom), el.width)
            /\ lastOp.direction \in {"bottom", "bottomRight"} =>
                  RatLeq(RatDiv(R(lastOp.minHeightPx), currentZoom), el.height)

\* C9: portrait A4, A3 and Letter are 595x842, 842x1191 and 612x792 points,
\* landscape is the swapped pair, and the page size the exporter sets on the
\* Page Writer is the paperDimensions pair of the canvas.
C9_PaperDimensions ==
    LET portraitWidth == CASE paperSize = "A4" -> 595
                           [] paperSize = "A3" -> 842
                           [] paperSize = "Letter" -> 612
        portraitHeight == CASE paperSize = "A4" -> 842
                            [] paperSize = "A3" -> 1191
                            [] paperSize = "Letter" -> 792
    IN  /\ orientation = "portrait" =>
              paperDims = [width |-> portraitWidth, height |-> portraitHeight]
        /\ orientation = "landscape" =>
              paperDims = [width |-> portraitHeight, height |-> portraitWidth]
        /\ lastOp.op = "export" => pdfPage = <<paperDims.width, paperDims.height>>

\* an export of an A4 landscape document
C9_Witness ==
    /\ lastOp.op = "export"
    /\ paperSize = "A4"
    /\ orientation = "landscape"
    /\ pdfPage = <<842, 595>>

\* C10: after any sequence of slider changes and zoom icon clicks the zoom
\* factor lies in [0.5, 2.0].
C10_ZoomInRange == SliderMin <= zoom /\ zoom <= SliderMax

finalized(r) == r \in 1..Len(runs) /\ runs[r].phase = "finalized"
positionOf(seq, v) == CHOOSE k \in 1..Len(seq) : seq[k] = v

\* C11: in every export of a reachable document, an element with a higher zIndex
\* has its draw procedure executed later than every element with a lower zIndex.
C11_DrawnInZIndexOrder ==
    \A r \in 1..Len(runs) :
        finalized(r) =>
            \A i, j \in 1..Len(runs[r].snapshot) :
                runs[r].snapshot[i].zIndex < runs[r].snapshot[j].zIndex =>
                    positionOf(runs[r].attempted, runs[r].snapshot[i].id)
                        < positionOf(runs[r].attempted, runs[r].snapshot[j].id)

\* C12: no draw procedure of an export is executed before the promises of all its
\* elements have settled, and the draw procedures are then executed in the order
\* of the elements, whatever order the promises settled in.
C12_JoinThenReplayInOrder ==
    \A r \in 1..Len(runs) :
        /\ (runs[r].attempted # <<>> \/ runs[r].drawn # <<>>) =>
               Len(runs[r].settled) = Len(runs[r].snapshot)
        /\ finalized(r) => runs[r].attempted = idOrder(runs[r].snapshot)

\* an export of two elements whose second promise settled first
C12_Witness ==
    /\ finalized(1)
    /\ runs[1].settled = <<2, 1>>
    /\ runs[1].attempted = idOrder(runs[1].snapshot)
    /\ Len(runs[1].drawn) = 2

replayed(r) == r \in 1..Len(runs) /\ runs[r].phase # "pending"
callsOf(drawn, id) == SelectSeq(drawn, LAMBDA c : c.id = id)

\* what C13 states of every element but the failed ones, of the blob and of the
\* pipeline: every draw procedure is executed, the elements that did not fail
\* are drawn in full, the export finalizes to a blob that is opened, and no
\* exception escapes
othersDrawnAndFinalized(r) ==
    /\ runs[r].phase = "finalized"
    /\ runs[r].attempted = idOrder(runs[r].snapshot)
    /\ \A i \in 1..Len(runs[r].snapshot) :
          runs[r].snapshot[i].id \notin runs[r].failed =>
              callsOf(runs[r].drawn, runs[r].snapshot[i].id)
                  = drawProcedure(runs[r].snapshot[i])
    /\ runs[r].url \in 1..Len(blobUrls)
    /\ blobUrls[runs[r].url].blob = runs[r].drawn

\* C13 (as stated): when draw procedures fail, every other element is still drawn,
\* the export finalizes to a blob, no exception escapes, and a failed element
\* contributes no drawing.
C13_FailedElementDrawsNothing ==
    \A r \in 1..Len(runs) :
        replayed(r) =>
            /\ othersDrawnAndFinalized(r)
            /\ \A id \in runs[r].failed : callsOf(runs[r].drawn, id) = <<>>

\* C13 (amended): when draw procedures fail, every other element is still drawn,
\* the export finalizes to a blob and no exception escapes; a failed element
\* contributes only the Page Writer calls it completed before the exception:
\* nothing for a text, title, chart, image or divider, and at most the shadow
\* rectangle for a card.
C13_FailureIsLocal ==
    \A r \in 1..Len(runs) :
        replayed(r) =>
            /\ othersDrawnAndFinalized(r)
            /\ \A i \in 1..Len(runs[r].snapshot) :
                  runs[r].snapshot[i].id \in runs[r].failed =>
                      LET contributed == callsOf(runs[r].drawn, runs[r].snapshot[i].id)
                      IN  \/ contributed = <<>>
                          \/ /\ runs[r].snapshot[i].type = "card"
                             /\ contributed =
                                  <<WriterCall(runs[r].snapshot[i].id, "roundedRect",
                                               "shadow", "F")>>

\* the scenario of the specification: a chart that fails and a text element, the
\* text is in the output
C13_Witness ==
    /\ finalized(1)
    /\ Len(runs[1].snapshot) = 2
    /\ runs[1].snapshot[1].type = "chart"
    /\ runs[1].snapshot[2].type = "text"
    /\ runs[1].failed = {runs[1].snapshot[1].id}
    /\ runs[1].drawn = drawProcedure(runs[1].snapshot[2])
    /\ blobUrls[runs[1].url].blob = runs[1].drawn

\* C14: for every document the recipe holds, in the same order, exactly the
\* statements of the drawing decisions the binary export performs: the element
\* type branch, the alignment branch, the shadow rectangle before the main one
\* iff shadow, rounded iff borderRadius > 0, fill+stroke iff borderWidth > 0.
C14_RecipeMatchesExport ==
    lastOp.op = "generateCode" => lastOp.code = exportDrawCalls(elements)

IdOperations ==
    {"moveElement", "resizeElement", "updateElementStyle", "deleteElement",
     "bringForward", "sendBackward", "bringToFront", "sendToBack", "hover"}

\* C15: an operation addressed by element id that is called with an id not in the
\* document leaves the element collection as it was: same elements, same order,
\* same field values including zIndex.
C15_AbsentIdChangesNothing ==
    [][(lastOp'.op \in IdOperations /\ ~present(elements, lastOp'.id)) =>
          elements' = elements]_vars

\* sendBackward was called with the id of a deleted element on a document whose
\* remaining element has a zIndex that is not its index
C15_Witness ==
    /\ lastOp = [op |-> "sendBackward", id |-> 1]
    /\ ~present(elements, 1)
    /\ Len(elements) = 1
    /\ elements[1].zIndex = 1

C18_IndependentRuns ==
    /\ [](\A r \in 1..Len(runs) :
            /\ finalized(r) =>
                  /\ runs[r].drawn = exportDrawCalls(runs[r].snapshot)
                  /\ runs[r].url \in 1..Len(blobUrls)
                  /\ blobUrls[runs[r].url].owner = r
                  /\ blobUrls[runs[r].url].blob = exportDrawCalls(runs[r].snapshot)
                  /\ \A q \in 1..Len(runs) :
                        (finalized(q) /\ q # r) => runs[q].url # runs[r].url
            /\ ~finalized(r) => runs[r].drawn = <<>>
            /\ (pending(r) /\ Len(runs[r].settled) = Len(runs[r].promises)) =>
                  ENABLED (\E failAt \in NoFailure(runs[r].promises) : Finalize(r, failAt)))
    /\ [][\A r \in 1..Len(runs) :
            finalized(r) =>
                /\ finalized(r)'
                /\ runs'[r].drawn = runs[r].drawn
                /\ runs'[r].snapshot = runs[r].snapshot
                /\ blobUrls'[runs[r].url].blob = blobUrls[runs[r].url].blob]_vars

\* a second export of a changed document has finalized while the URL of the first
\* is still live
C18_Witness ==
    /\ finalized(1) /\ finalized(2)
    /\ runs[1].timer # "fired"
    /\ runs[1].snapshot # runs[2].snapshot
    /\ runs[2].drawn # <<>>

urlsOf(r) == { u \in 1..Len(blobUrls) : blobUrls[u].owner = r }
urlRevoked(r) == finalized(r) /\ blobUrls[runs[r].url].state = "revoked"

\* C19: an export that finalizes creates exactly one object URL and opens the
\* preview with it; that URL is revoked at most once, only by the step that
\* follows the elapsed delay and not before the preview was opened; and it is
\* eventually revoked.
C19_UrlRevokedOnceAfterDelay ==
    /\ [](\A r \in 1..Len(runs) :
            /\ finalized(r) =>
                  /\ urlsOf(r) = {runs[r].url}
                  /\ blobUrls[runs[r].url].opened
                  /\ blobUrls[runs[r].url].revocations <= 1
                  /\ (blobUrls[runs[r].url].state = "revoked") <=> (runs[r].timer = "fired")
            /\ ~finalized(r) => urlsOf(r) = {})
    /\ [][\A u \in 1..Len(blobUrls) :
            blobUrls'[u] # blobUrls[u] =>
                /\ runs[blobUrls[u].owner].timer = "elapsed"
                /\ blobUrls[u].opened
                /\ blobUrls'[u].revocations = 1]_vars
    /\ \A r \in 1..MaxRuns : finalized(r) ~> urlRevoked(r)

\* the timer of the first export has revoked its URL after a second URL was created
C19_Witness ==
    /\ Len(blobUrls) = 2
    /\ finalized(1)
    /\ runs[1].timer = "fired"
    /\ blobUrls[runs[1].url].state = "revoked"
    /\ blobUrls[2].state = "live"

\* the distance of two rationals is at most one
withinOne(a, b) == RatLeq(RatSub(a, b), R(1)) /\ RatLeq(RatSub(b, a), R(1))

\* C20: at every display scale obtained with a zoom in [0.5, 2.0], converting the
\* rendered offset (x*scale, y*scale) of a document point on the page back to
\* document coordinates, by the drop conversion or by the drag conversion, gives a
\* point within 1 document point of (x, y) on both axes.
C20_ConversionInvertsRendering ==
    (lastOp.op = "convert" /\ SliderMin <= zoom /\ zoom <= SliderMax) =>
        /\ withinOne(lastOp.dropped.x, lastOp.point[1])
        /\ withinOne(lastOp.dropped.y, lastOp.point[2])
        /\ withinOne(lastOp.dragged.x, lastOp.point[1])
        /\ withinOne(lastOp.dragged.y, lastOp.point[2])

\* a point off the point grid was converted at zoom 0.5 on a landscape page, where
\* the scale is not 1 and the drag conversion rounds
C20_Witness ==
    /\ lastOp.op = "convert"
    /\ zoom = SliderMin
    /\ orientation = "landscape"
    /\ displayDimensions.scale # R(1)
    /\ lastOp.point[1] = Rat(1, 2)
    /\ lastOp.dragged.x # lastOp.point[1]
    /\ lastOp.dropped.x = lastOp.point[1]

\* a rational with denominator 1
isInteger(a) == a[2] = 1

\* C21: during a drag the snapped coordinate, before the bounds clamping, is the
\* multiple of gridSizeInPoints = GRID_SIZE / currentZoom nearest to the pointer's
\* document coordinate, on both axes: the snap step on screen is GRID_SIZE pixels.
C21_SnapsToNearestGridMultiple ==
    lastOp.op = "updatePosition" =>
        LET currentZoom == currentZoomOf(displayDimensions, paperDims)
            gridSizeInPoints == RatDiv(R(GRID_SIZE), currentZoom)
            half == RatDiv(gridSizeInPoints, R(2))
        IN  \A axis \in 1..2 :
               LET snapped == snappedCoordinate(lastOp.pointer[axis], currentZoom)
                   documentCoordinate == RatDiv(R(lastOp.pointer[axis]), currentZoom)
               IN  /\ isInteger(RatDiv(snapped, gridSizeInPoints))
                   /\ RatLeq(RatSub(snapped, documentCoordinate), half)
                   /\ RatLeq(RatSub(documentCoordinate, snapped), half)

\* C25: with paper size and orientation fixed, after any sequence of drop,
\* drag-move, post-drag bounds correction, arrow-key nudge and resize at a zoom in
\* [0.5, 2.0], every element lies inside the page: 0 <= x, 0 <= y,
\* x + width <= paperWidth and y + height <= paperHeight.
C25_ElementsInsidePaper ==
    \A i \in 1..Len(elements) :
        LET el == elements[i]
        IN  /\ RatLeq(R(0), el.x)
            /\ RatLeq(R(0), el.y)
            /\ RatLeq(RatAdd(el.x, el.width), R(paperDims.width))
            /\ RatLeq(RatAdd(el.y, el.height), R(paperDims.height))

\* a footer with every {PAGENUM} and {PAGES} replaced
substituted(footer, i, totalPages) ==
    [k \in 1..Len(footer) |->
        IF footer[k] = "{PAGENUM}" THEN ToString(i)
        ELSE IF footer[k] = "{PAGES}" THEN ToString(totalPages)
        ELSE footer[k]]

\* this step is a call of one of these methods of the Page Writer
writerCalled(methods) == lastOp'.op \in methods /\ writer'.calls = writer.calls + 1

\* the step draws this text with this alignment on page i
drawsFooter(i, footer, align, totalPages) ==
    \E k \in (Len(writer.pages[i]) + 1)..Len(writer'.pages[i]) :
        /\ writer'.pages[i][k].call = "text"
        /\ writer'.pages[i][k].content = substituted(footer, i, totalPages)
        /\ writer'.pages[i][k].align = align

\* C22: printFooter(fromPageNumber) draws, on every page i from fromPageNumber to
\* the last page, each footer that is configured non-empty (left, right, center)
\* with {PAGENUM} replaced by i and {PAGES} by the number of pages, whichever of
\* the other footers are configured.
C22_FootersOnEveryPage ==
    [][writerCalled({"printFooter"}) =>
          LET totalPages == Len(writer.pages)
          IN  \A i \in lastOp'.args..totalPages :
                 /\ writer.leftFooter # <<>> =>
                        drawsFooter(i, writer.leftFooter, "left", totalPages)
                 /\ writer.rightFooter # <<>> =>
                        drawsFooter(i, writer.rightFooter, "right", totalPages)
                 /\ writer.centerFooter # <<>> =>
                        drawsFooter(i, writer.centerFooter, "center", totalPages)]_vars

\* C23: after any number of setPageHeader registrations, each page added runs
\* the registered callback exactly once.
C23_CallbackOncePerPage ==
    \A p \in 1..Len(writer.added) :
        writer.added[p].registrations >= 1 =>
            writer.added[p].calls = <<writer.added[p].calls[1]>>

\* C24: drawing an explicitly positioned element (printText with both x and y,
\* addImage, rect, line) leaves the cursor {x, y} unchanged.
C24_PositionedDrawingKeepsCursor ==
    [][(\/ writerCalled({"addImage", "rect", "line"})
        \/ writerCalled({"printText"}) /\ {"x", "y"} \subseteq DOMAIN lastOp'.args) =>
          writer'.cursorPos = writer.cursorPos]_vars

\* C26: an orientation change remaps every element proportionally with the axes
\* swapped: x'/newPaperWidth = y/oldPaperHeight and y'/newPaperHeight =
\* x/oldPaperWidth, and leaves its width and height as they were.
C26_OrientationRemapKeepsRelativePosition ==
    [][(lastOp'.op = "orientation" /\ orientation' # orientation) =>
          LET old == paperDims
              new == paperDimensions(paperSize', orientation')
          IN  /\ Len(elements') = Len(elements)
              /\ \A i \in 1..Len(elements) :
                    /\ RatDiv(elements'[i].x, R(new.width)) =
                          RatDiv(elements[i].y, R(old.height))
                    /\ RatDiv(elements'[i].y, R(new.height)) =
                          RatDiv(elements[i].x, R(old.width))
                    /\ elements'[i].width = elements[i].width
                    /\ elements'[i].height = elements[i].height]_vars

cardsOf(r) ==
    {i \in 1..Len(runs[r].snapshot) :
        /\ runs[r].snapshot[i].type = "card"
        /\ runs[r].snapshot[i].id \notin runs[r].failed}

\* C27: for a card the export draws, in this order, a filled rounded rectangle
\* at position + (2,2) if and only if shadow is set, and then the main rectangle
\* at the position, for every card; the main rectangle is rounded if and only if
\* borderRadius > 0, and is filled and stroked if borderWidth > 0 and only
\* filled otherwise.
C27_CardShadowThenMainRectangle ==
    \A r \in 1..Len(runs) :
        finalized(r) =>
            \A i \in cardsOf(r) :
                LET card == runs[r].snapshot[i]
                    calls == callsOf(runs[r].drawn, card.id)
                    main == calls[Len(calls)]
                IN  /\ Len(calls) = IF field(card, "shadow", FALSE) THEN 2 ELSE 1
                    /\ field(card, "shadow", FALSE) =>
                          /\ calls[1].call = "roundedRect"
                          /\ calls[1].mode = "F"
                          /\ rectangleOrigin(card, calls[1])
                                = <<RatAdd(card.x, R(2)), RatAdd(card.y, R(2))>>
                    /\ main.branch = "main"
                    /\ rectangleOrigin(card, main) = <<card.x, card.y>>
                    /\ (main.call = "roundedRect") = (field(card, "borderRadius", 0) > 0)
                    /\ main.call \in {"roundedRect", "rect"}
                    /\ (main.mode = "FD") = (field(card, "borderWidth", 0) > 0)
                    /\ main.mode \in {"FD", "F"}

\* an export drew a card with a shadow, a radius and a border, and a card with
\* none of them
C27_Witness ==
    /\ finalized(1)
    /\ runs[1].failed = {}
    /\ Len(runs[1].snapshot) = 2
    /\ \E i, j \in cardsOf(1) :
          /\ field(runs[1].snapshot[i], "shadow", FALSE)
          /\ field(runs[1].snapshot[i], "borderRadius", 0) > 0
          /\ field(runs[1].snapshot[i], "borderWidth", 0) > 0
          /\ Len(callsOf(runs[1].drawn, runs[1].snapshot[i].id)) = 2
          /\ ~field(runs[1].snapshot[j], "shadow", FALSE)
          /\ field(runs[1].snapshot[j], "borderRadius", 0) = 0
          /\ field(runs[1].snapshot[j], "borderWidth", 0) = 0
          /\ Len(callsOf(runs[1].drawn, runs[1].snapshot[j].id)) = 1

\* C28: the temporary canvas a chart draw procedure attaches to the document is
\* detached again by the end of that draw procedure on every path (rendered, no
\* 2D context, exception while parsing, rendering or embedding); after the export
\* no canvas it created is attached.
C28_ChartCanvasDetached ==
    \A r \in 1..Len(runs) :
        replayed(r) =>
            /\ \A i \in 1..Len(runs[r].snapshot) :
                  runs[r].snapshot[i].type = "chart" =>
                      \E k \in 1..Len(runs[r].canvases) :
                          /\ runs[r].canvases[k].id = runs[r].snapshot[i].id
                          /\ runs[r].canvases[k].path \in ChartPathNames
                          /\ runs[r].canvases[k].dom[1] = "appendChild"
            /\ \A i \in 1..Len(runs[r].canvases) :
                  /\ ~attached(runs[r].canvases[i].dom)
                  /\ \A k \in 1..Len(runs[r].canvases[i].dom) :
                        runs[r].canvases[i].dom[k] = "removeChild" =>
                            attached(SubSeq(runs[r].canvases[i].dom, 1, k - 1))

\* an export of two charts: the spec of one did not parse, the image of the other
\* was rendered and could not be embedded
C28_Witness ==
    /\ finalized(1)
    /\ Len(runs[1].canvases) = 2
    /\ runs[1].canvases[1].path = "parse"
    /\ runs[1].canvases[2].path = "embed"
    /\ runs[1].canvases[1].dom[1] = "appendChild"
    /\ runs[1].canvases[2].dom[1] = "appendChild"
    /\ runs[1].drawn = <<>>

MutationOps ==
    {"addElement", "moveElement", "resizeElement", "updateElementStyle",
     "deleteElement", "bringForward", "sendBackward", "bringToFront", "sendToBack",
     "setPaperSize", "orientation"}

\* C29: after every mutation of the document (addElement, moveElement,
\* resizeElement, updateElementStyle, deleteElement, the four stack-order
\* operations, setPaperSize, setOrientation) the stored generatedCode is the
\* recipe generateCode produces from the document after the mutation.
C29_StoredRecipeIsCurrent ==
    lastOp.op \in MutationOps => generatedCode = recipeText(elements, orientation)

StackOperations == {"bringForward", "sendBackward", "bringToFront", "sendToBack"}

\* an element without its zIndex
withoutZIndex(element) == [f \in DOMAIN element \ {"zIndex"} |-> element[f]]

\* C30: each of the four stack-order operations keeps the number of elements,
\* the set of element ids and every field of every element other than zIndex
\* (type, content, position, size, style), and leaves paper size and
\* orientation as they were.
C30_StackOpsKeepAllButZIndex ==
    [][lastOp'.op \in StackOperations =>
          /\ Len(elements') = Len(elements)
          /\ {elements'[i].id : i \in 1..Len(elements')}
                = {elements[i].id : i \in 1..Len(elements)}
          /\ \A i \in 1..Len(elements) :
                \E j \in 1..Len(elements') :
                    withoutZIndex(elements'[j]) = withoutZIndex(elements[i])
          /\ paperSize' = paperSize
          /\ orientation' = orientation]_vars

\* bringForward has moved a resized element over a styled one
C30_Witness ==
    /\ lastOp.op = "bringForward"
    /\ Len(elements) = 2
    /\ elements[2].id = lastOp.id
    /\ elements[2].id = 1
    /\ elements[2].zIndex = 1
    /\ elements[2].width = R(50)
    /\ field(elements[1], "shadow", FALSE)

====
